---------------------------- MODULE Spec2Model ----------------------------
(***************************************************************************)
(* A model of the CAN-frame simulation: the 13-byte frame codec            *)
(* (can_frame.py), the timing scale (config.py), the device emulators      *)
(* (device_emulator.py), Module C (module_c.py) and the cloud application  *)
(* with its frame pipeline, freeze control and auto-watchdog tasks         *)
(* (cloud_app.py).                                                         *)
(*                                                                         *)
(* Time is counted in ticks of 0.1 s.  Byte strings are sequences of       *)
(* numbers 0..255; byte k of the source (0-based) is element k+1 here.     *)
(***************************************************************************)
EXTENDS Integers, Sequences, FiniteSets, TLC

VARIABLES
    now,           \* time.time(), in ticks of 0.1 s
    SCALE_TIMING,  \* config.SCALE_TIMING
    device_a,      \* the DeviceA object
    device_b,      \* the DeviceB object
    module_c,      \* the ModuleC object
    app,           \* the CloudApp object
    tasks,         \* the asyncio tasks that are not done
    ready,         \* the event loop's queue of task steps that are ready to run
    ret,           \* what the last call of the application's interface returned or raised
    hist,          \* history: what the run has been through, for the claims that speak of it
    codec          \* the codec under test: constructor arguments, frame, wire bytes, decoded frame

vars == <<now, SCALE_TIMING, device_a, device_b, module_c, app, tasks, ready, ret, hist, codec>>

-----------------------------------------------------------------------------
(* constants.py *)

CAN_FRAME_MAX_DATA_LENGTH == 8
CAN_STANDARD_ID_MAX == 2047
CAN_EXTENDED_ID_MAX == 536870911

DEVICE_A_STATUS_ID == 419364865
DEVICE_B_STATUS_ID == 419364866
WATCHDOG_FRAME_ID == 256
CONTROL_FRAME_ID == 512

-----------------------------------------------------------------------------
(* Python helpers *)

Min(a, b) == IF a < b THEN a ELSE b
Max(a, b) == IF a > b THEN a ELSE b

\* the exception objects the model distinguishes
ValueError == [ok |-> FALSE, error |-> "ValueError"]
IndexError == [ok |-> FALSE, error |-> "IndexError"]

\* [0] * n
Zeros(n) == [i \in 1..n |-> 0]

\* int.from_bytes(bs, 'big')
RECURSIVE int_from_bytes(_)
int_from_bytes(bs) ==
    IF Len(bs) = 0 THEN 0
    ELSE 256 * int_from_bytes(SubSeq(bs, 1, Len(bs) - 1)) + bs[Len(bs)]

\* data[a:b] of Python on a sequence (0-based, end exclusive, clipped to the length)
Slice(s, a, b) == SubSeq(s, a + 1, Min(b, Len(s)))

-----------------------------------------------------------------------------
(* can_frame.py *)

\* CANFrame.__init__ with the identifier allowed one above its maximum
CANFrame_init_one_above(extended, remote, can_id, data) ==
    LET max_id == IF extended THEN CAN_EXTENDED_ID_MAX ELSE CAN_STANDARD_ID_MAX
    IN  IF ~(0 <= can_id /\ can_id <= max_id + 1) THEN ValueError
        ELSE IF Len(data) > CAN_FRAME_MAX_DATA_LENGTH THEN ValueError
        ELSE [ok |-> TRUE, extended |-> extended, remote |-> remote,
              can_id |-> can_id, data |-> data]

\* CANFrame.__init__ with the identifier of an extended frame left unchecked
CANFrame_init_extended_unchecked(extended, remote, can_id, data) ==
    LET max_id == CAN_STANDARD_ID_MAX
    IN  IF ~extended /\ ~(0 <= can_id /\ can_id <= max_id) THEN ValueError
        ELSE IF Len(data) > CAN_FRAME_MAX_DATA_LENGTH THEN ValueError
        ELSE [ok |-> TRUE, extended |-> extended, remote |-> remote,
              can_id |-> can_id, data |-> data]

\* CANFrame.__init__: the frame, or the ValueError of the range checks
CANFrame_init(extended, remote, can_id, data) ==
    LET max_id == IF extended THEN CAN_EXTENDED_ID_MAX ELSE CAN_STANDARD_ID_MAX
    IN  IF ~(0 <= can_id /\ can_id <= max_id) THEN ValueError
        ELSE IF Len(data) > CAN_FRAME_MAX_DATA_LENGTH THEN ValueError
        ELSE [ok |-> TRUE, extended |-> extended, remote |-> remote,
              can_id |-> can_id, data |-> data]

\* id_bytes with the high identifier byte of a standard frame dropped
id_bytes_low_only(f) ==
    IF f.extended
    THEN << (f.can_id \div 16777216) % 256,
            (f.can_id \div 65536) % 256,
            (f.can_id \div 256) % 256,
            f.can_id % 256 >>
    ELSE << 0, 0, 0, f.can_id % 256 >>

\* the identifier bytes of to_ethernet
id_bytes(f) ==
    IF f.extended
    THEN << (f.can_id \div 16777216) % 256,
            (f.can_id \div 65536) % 256,
            (f.can_id \div 256) % 256,
            f.can_id % 256 >>
    ELSE << 0, 0, (f.can_id \div 256) % 256, f.can_id % 256 >>

\* control_byte with the RTR bit left out
control_byte_no_rtr(f) ==
    (IF f.extended THEN 128 ELSE 0) + (Len(f.data) % 16)

\* the control byte of to_ethernet: the three fields occupy disjoint bits,
\* so their bitwise OR is their sum
control_byte(f) ==
    (IF f.extended THEN 128 ELSE 0)
    + (IF f.remote THEN 64 ELSE 0)
    + (Len(f.data) % 16)

\* CANFrame.to_ethernet
to_ethernet(f) ==
    <<control_byte(f)>> \o id_bytes(f) \o (f.data \o Zeros(8 - Len(f.data)))

\* frame_data with the whole trailing field taken, whatever the length says
frame_data_to_end(data, length) == Slice(data, 5, 13)

\* the payload from_ethernet cuts out of the wire bytes
frame_data(data, length) == Slice(data, 5, 5 + length)

\* from_ethernet with a declared length above 8 rejected
from_ethernet_rejects_long(data) ==
    IF Len(data) # 13 THEN ValueError
    ELSE LET control  == data[1]
             extended == (control \div 128) % 2 = 1
             remote   == (control \div 64) % 2 = 1
             length   == control % 16
             can_id   == IF extended THEN int_from_bytes(Slice(data, 1, 5))
                                     ELSE int_from_bytes(Slice(data, 3, 5))
         IN  IF length > CAN_FRAME_MAX_DATA_LENGTH THEN ValueError
             ELSE CANFrame_init(extended, remote, can_id, frame_data(data, length))

\* CANFrame.from_ethernet
from_ethernet(data) ==
    IF Len(data) # 13 THEN ValueError
    ELSE LET control  == data[1]
             extended == (control \div 128) % 2 = 1
             remote   == (control \div 64) % 2 = 1
             length   == control % 16
             can_id   == IF extended THEN int_from_bytes(Slice(data, 1, 5))
                                     ELSE int_from_bytes(Slice(data, 3, 5))
         IN  CANFrame_init(extended, remote, can_id, frame_data(data, length))

-----------------------------------------------------------------------------
(* The objects main.py constructs.  The handlers below are functions of    *)
(* the "world" w, the record of all the objects, and of the time t of the  *)
(* call; an action applies one to the current world.                       *)

progvars == <<now, SCALE_TIMING, device_a, device_b, module_c, app, tasks, ready, ret, hist>>

World ==
    [SCALE_TIMING |-> SCALE_TIMING, device_a |-> device_a, device_b |-> device_b,
     module_c |-> module_c, app |-> app, tasks |-> tasks, ready |-> ready]

SetWorld(w) ==
    /\ SCALE_TIMING' = w.SCALE_TIMING
    /\ device_a' = w.device_a
    /\ device_b' = w.device_b
    /\ module_c' = w.module_c
    /\ app' = w.app
    /\ tasks' = w.tasks
    /\ ready' = w.ready

\* int(time.time()) % 60 at tick t
current_second(t) == (t \div 10) % 60

\* DeviceA._get_operational_value with its first band one second longer
DeviceA_get_operational_value_late(t) ==
    IF current_second(t) <= 21 THEN 1
    ELSE IF current_second(t) <= 40 THEN 2
    ELSE 3

\* DeviceA._get_operational_value
DeviceA_get_operational_value(t) ==
    IF current_second(t) <= 20 THEN 1
    ELSE IF current_second(t) <= 40 THEN 2
    ELSE 3

\* ModuleC._get_operational_value
ModuleC_get_operational_value(t) ==
    IF current_second(t) <= 15 THEN 1
    ELSE IF current_second(t) <= 30 THEN 10
    ELSE IF current_second(t) <= 45 THEN 100
    ELSE 1000

\* DeviceA.__init__ at time t
DeviceA_init(t) ==
    [operational |-> DeviceA_get_operational_value(t), uptime |-> 0,
     start_time |-> t, running |-> TRUE]

\* DeviceB.__init__ at time t
DeviceB_init(t) ==
    [control |-> 0, status |-> 0, watchdog |-> 0, watchdog_status |-> "ok",
     last_command |-> 0, last_watchdog_reset |-> t,
     running |-> TRUE, frozen |-> FALSE, frozen_watchdog_status |-> "None"]

\* ModuleC.__init__
ModuleC_init ==
    [device_a |-> 0, device_b |-> 0, calculation_result |-> 0,
     last_calculation_time |-> 0, running |-> TRUE, frozen |-> FALSE]

\* a frame rate count / max(1, elapsed) * scale as a fraction of whole
\* numbers <<numerator, denominator>>; elapsed is in ticks
Rate(count, elapsed, scale) ==
    IF count = 0 THEN <<0, 1>> ELSE <<count * scale * 10, Max(10, elapsed)>>

\* CloudApp.__init__ at time t
CloudApp_init(t) ==
    [watchdog_task |-> 0, watchdog_interval |-> 0,
     last_received_frames |-> <<>>,
     auto_watchdog_enabled |-> FALSE,
     last_watchdog_status |-> "ok", last_watchdog_reset_time |-> t,
     running |-> FALSE, frozen |-> FALSE,
     device_a_generator |-> "None", device_b_generator |-> "None",
     device_tasks |-> <<>>,
     active_websockets |-> 0,
     has_watchdog_state_before_freeze |-> FALSE,
     watchdog_state_before_freeze |-> FALSE,
     pipeline_stats |->
        [frames_processed |-> 0, device_a_frames |-> 0, device_b_frames |-> 0,
         control_frames |-> 0, watchdog_frames |-> 0, last_frame_time |-> 0,
         frame_rates |-> [device_a |-> <<0, 1>>, device_b |-> <<0, 1>>, total |-> <<0, 1>>],
         last_rates_update |-> t]]

\* no frame yet
NoFrame == [ok |-> FALSE, error |-> "none"]

\* the codec under test when it is not exercised
CodecIdle == [pc |-> "idle", args |-> <<>>, frame |-> NoFrame, wire |-> <<>>, decoded |-> NoFrame]

\* what a call that returns None returns
None == [ok |-> TRUE, value |-> "None"]

\* main(): the objects right after construction, at tick 1 (time.time() is
\* never 0, which the code reads as "never")
ProgramInit ==
    /\ now = 1
    /\ SCALE_TIMING = 1
    /\ device_a = DeviceA_init(1)
    /\ device_b = DeviceB_init(1)
    /\ module_c = ModuleC_init
    /\ app = CloudApp_init(1)
    /\ tasks = <<>>
    /\ ready = <<>>
    /\ ret = None
    /\ hist = [enabled_at_freeze |-> FALSE, stop_called |-> FALSE, last_a_frame |-> 0]

-----------------------------------------------------------------------------
(* module_c.py *)

\* ModuleC.set_running leaving the frozen flag as it was
ModuleC_set_running_keeps_frozen(c, state) ==
    [c EXCEPT !.running = state]

\* ModuleC.set_running
ModuleC_set_running(c, state) ==
    [c EXCEPT !.running = state, !.frozen = ~state]

\* ModuleC.update_device_a without its test of the frozen flag
ModuleC_update_device_a_unguarded(c, value) ==
    [c EXCEPT !.device_a = value]

\* ModuleC.update_device_a
ModuleC_update_device_a(c, value) ==
    IF ~c.frozen THEN [c EXCEPT !.device_a = value] ELSE c

\* ModuleC.update_device_b
ModuleC_update_device_b(c, value) ==
    IF ~c.frozen THEN [c EXCEPT !.device_b = value] ELSE c

\* one turn of the loop of ModuleC.process_data without the multiplier
ModuleC_process_data_unweighted(c, t) ==
    IF c.running /\ ~c.frozen
    THEN [c EXCEPT !.calculation_result = c.device_a + c.device_b,
                   !.last_calculation_time = t]
    ELSE c

\* one turn of the loop of ModuleC.process_data, at time t
ModuleC_process_data(c, t) ==
    IF c.running /\ ~c.frozen
    THEN [c EXCEPT !.calculation_result =
                        (c.device_a + c.device_b) * ModuleC_get_operational_value(t),
                   !.last_calculation_time = t]
    ELSE c

-----------------------------------------------------------------------------
(* cloud_app.py: the frame pipeline *)

\* d[key] = value on a dict
DictSet(d, key, value) ==
    [k \in (DOMAIN d) \cup {key} |-> IF k = key THEN value ELSE d[k]]

\* CloudApp._handle_device_a_frame reading the uptime from payload bytes
\* 0..3 instead of 1..4
handle_device_a_frame_uptime_shifted(w, frame, t) ==
    LET w1 == [w EXCEPT !.app.pipeline_stats.device_a_frames = @ + 1]
    IN  IF Len(frame.data) < 1 THEN [w |-> w1, ret |-> IndexError]
        ELSE LET operational_value == frame.data[1]
                 w2 == [w1 EXCEPT !.module_c = ModuleC_update_device_a(@, operational_value),
                                  !.device_a.operational = operational_value,
                                  !.device_a.uptime = int_from_bytes(Slice(frame.data, 0, 4))]
             IN  [w |-> w2, ret |-> None]

\* CloudApp._handle_device_a_frame; raises IndexError on an empty payload,
\* after the counter is incremented
handle_device_a_frame(w, frame, t) ==
    LET w1 == [w EXCEPT !.app.pipeline_stats.device_a_frames = @ + 1]
    IN  IF Len(frame.data) < 1 THEN [w |-> w1, ret |-> IndexError]
        ELSE LET operational_value == frame.data[1]
                 w2 == [w1 EXCEPT !.module_c = ModuleC_update_device_a(@, operational_value),
                                  !.device_a.operational = operational_value,
                                  !.device_a.uptime = int_from_bytes(Slice(frame.data, 1, 5))]
             IN  [w |-> w2, ret |-> None]

\* CloudApp._handle_watchdog_frame
handle_watchdog_frame(w, frame, t) ==
    [w |-> [w EXCEPT !.app.pipeline_stats.watchdog_frames = @ + 1,
                     !.app.last_watchdog_reset_time = t],
     ret |-> None]

\* CloudApp._handle_device_b_frame; raises IndexError on a payload shorter
\* than 4 bytes, after the counter is incremented
handle_device_b_frame(w, frame, t) ==
    LET w1 == [w EXCEPT !.app.pipeline_stats.device_b_frames = @ + 1]
    IN  IF Len(frame.data) < 4 THEN [w |-> w1, ret |-> IndexError]
        ELSE LET control_value == frame.data[2]
                 w2 == [w1 EXCEPT !.app.last_watchdog_status =
                                        IF frame.data[4] # 0 THEN "ok" ELSE "triggered",
                                  !.module_c = ModuleC_update_device_b(@, control_value)]
             IN  [w |-> w2, ret |-> None]

\* CloudApp._handle_control_frame; the log line reads frame.data[0] and
\* raises IndexError on an empty payload, after the counter is incremented
handle_control_frame(w, frame, t) ==
    LET w1 == [w EXCEPT !.app.pipeline_stats.control_frames = @ + 1]
    IN  IF Len(frame.data) < 1 THEN [w |-> w1, ret |-> IndexError]
        ELSE [w |-> w1, ret |-> None]

\* CloudApp._frame_handlers with a handler registered for one more identifier
frame_handlers_one_more ==
    {DEVICE_A_STATUS_ID, DEVICE_B_STATUS_ID, WATCHDOG_FRAME_ID, CONTROL_FRAME_ID, 291}

\* CloudApp._frame_handlers
frame_handlers == {DEVICE_A_STATUS_ID, DEVICE_B_STATUS_ID, WATCHDOG_FRAME_ID, CONTROL_FRAME_ID}

\* self._frame_handlers[frame.can_id](frame)
dispatch(w, frame, t) ==
    IF frame.can_id = DEVICE_A_STATUS_ID THEN handle_device_a_frame(w, frame, t)
    ELSE IF frame.can_id = DEVICE_B_STATUS_ID THEN handle_device_b_frame(w, frame, t)
    ELSE IF frame.can_id = WATCHDOG_FRAME_ID THEN handle_watchdog_frame(w, frame, t)
    ELSE handle_control_frame(w, frame, t)

\* CloudApp.process_device_frame counting the frame after its handler has
\* returned
process_device_frame_counts_last(w, frame_bytes, t) ==
    LET frame == from_ethernet(frame_bytes)
    IN  IF ~frame.ok THEN [w |-> w, ret |-> frame]
        ELSE IF w.app.frozen THEN [w |-> w, ret |-> frame]
        ELSE LET h == IF frame.can_id \in frame_handlers
                      THEN dispatch(w, frame, t)
                      ELSE [w |-> w, ret |-> None]
             IN  IF ~h.ret.ok THEN h
                 ELSE [w |-> [h.w EXCEPT !.app.pipeline_stats.frames_processed = @ + 1,
                                         !.app.pipeline_stats.last_frame_time = t,
                                         !.app.last_received_frames =
                                             DictSet(@, frame.can_id, frame)],
                       ret |-> frame]

\* CloudApp.process_device_frame counting the frame before it is decoded
process_device_frame_counts_first(w, frame_bytes, t) ==
    LET frame == from_ethernet(frame_bytes)
        w1 == [w EXCEPT !.app.pipeline_stats.frames_processed = @ + 1,
                        !.app.pipeline_stats.last_frame_time = t]
    IN  IF ~frame.ok THEN [w |-> w1, ret |-> frame]
        ELSE IF w.app.frozen THEN [w |-> w, ret |-> frame]
        ELSE LET h == IF frame.can_id \in frame_handlers
                      THEN dispatch(w1, frame, t)
                      ELSE [w |-> w1, ret |-> None]
             IN  IF ~h.ret.ok THEN h
                 ELSE [w |-> [h.w EXCEPT !.app.last_received_frames =
                                             DictSet(@, frame.can_id, frame)],
                       ret |-> frame]

\* CloudApp.process_device_frame testing the frozen flag after the frame is
\* counted instead of before
process_device_frame_counts_frozen(w, frame_bytes, t) ==
    LET frame == from_ethernet(frame_bytes)
    IN  IF ~frame.ok THEN [w |-> w, ret |-> frame]
        ELSE LET w1 == [w EXCEPT !.app.pipeline_stats.frames_processed = @ + 1,
                                 !.app.pipeline_stats.last_frame_time = t]
                 h  == IF frame.can_id \in frame_handlers
                       THEN dispatch(w1, frame, t)
                       ELSE [w |-> w1, ret |-> None]
             IN  IF w.app.frozen THEN [w |-> w1, ret |-> frame]
                 ELSE IF ~h.ret.ok THEN h
                 ELSE [w |-> [h.w EXCEPT !.app.last_received_frames =
                                             DictSet(@, frame.can_id, frame)],
                       ret |-> frame]

\* CloudApp.process_device_frame: the world after the call and the frame it
\* returns or the exception it raises
process_device_frame(w, frame_bytes, t) ==
    LET frame == from_ethernet(frame_bytes)
    IN  IF ~frame.ok THEN [w |-> w, ret |-> frame]
        ELSE IF w.app.frozen THEN [w |-> w, ret |-> frame]
        ELSE LET w1 == [w EXCEPT !.app.pipeline_stats.frames_processed = @ + 1,
                                 !.app.pipeline_stats.last_frame_time = t]
                 h  == IF frame.can_id \in frame_handlers
                       THEN dispatch(w1, frame, t)
                       ELSE [w |-> w1, ret |-> None]
             IN  IF ~h.ret.ok THEN h
                 ELSE [w |-> [h.w EXCEPT !.app.last_received_frames =
                                             DictSet(@, frame.can_id, frame)],
                       ret |-> frame]

\* one turn of the reset loop that keeps the count of Device A's frames
reset_counters_keeps_device_a(w, t) ==
    IF w.app.frozen THEN w
    ELSE LET st == w.app.pipeline_stats
             elapsed == t - st.last_rates_update
         IN  [w EXCEPT !.app.pipeline_stats =
                [st EXCEPT !.frame_rates =
                               [device_a |-> Rate(st.device_a_frames, elapsed, w.SCALE_TIMING),
                                device_b |-> Rate(st.device_b_frames, elapsed, w.SCALE_TIMING),
                                total |-> Rate(st.frames_processed, elapsed, w.SCALE_TIMING)],
                           !.frames_processed = 0,
                           !.device_b_frames = 0,
                           !.control_frames = 0,
                           !.watchdog_frames = 0,
                           !.last_rates_update = t]]

\* one turn of the loop of CloudApp._reset_counters_periodic, at time t
reset_counters(w, t) ==
    IF w.app.frozen THEN w
    ELSE LET st == w.app.pipeline_stats
             elapsed == t - st.last_rates_update
         IN  [w EXCEPT !.app.pipeline_stats =
                [st EXCEPT !.frame_rates =
                               [device_a |-> Rate(st.device_a_frames, elapsed, w.SCALE_TIMING),
                                device_b |-> Rate(st.device_b_frames, elapsed, w.SCALE_TIMING),
                                total |-> Rate(st.frames_processed, elapsed, w.SCALE_TIMING)],
                           !.frames_processed = 0,
                           !.device_a_frames = 0,
                           !.device_b_frames = 0,
                           !.control_frames = 0,
                           !.watchdog_frames = 0,
                           !.last_rates_update = t]]

-----------------------------------------------------------------------------
(* config.py *)

\* float('nan'), which a float argument may be: a value apart from every
\* number, that compares false with everything
NaN == -999

\* a <= b on floats
Leq(a, b) == a # NaN /\ b # NaN /\ a <= b

\* set_scale_timing: the new scale, or ValueError and the old scale
set_scale_timing(w, value) ==
    IF Leq(value, 0) THEN [w |-> w, ret |-> ValueError]
    ELSE [w |-> [w EXCEPT !.SCALE_TIMING = value], ret |-> None]

-----------------------------------------------------------------------------
(* device_emulator.py: Device B *)

\* DeviceB._base_watchdog_timeout, 0.5 s
base_watchdog_timeout == 5

\* DeviceB.set_running with the saved status restored as "ok" whatever it was
DeviceB_set_running_clears(b, state) ==
    IF ~state
    THEN [b EXCEPT !.running = FALSE, !.frozen = TRUE,
                   !.frozen_watchdog_status = b.watchdog_status]
    ELSE [b EXCEPT !.running = TRUE, !.frozen = FALSE,
                   !.watchdog_status = "ok",
                   !.frozen_watchdog_status = "None"]

\* DeviceB.set_running
DeviceB_set_running(b, state) ==
    IF ~state
    THEN [b EXCEPT !.running = FALSE, !.frozen = TRUE,
                   !.frozen_watchdog_status = b.watchdog_status]
    ELSE [b EXCEPT !.running = TRUE, !.frozen = FALSE,
                   !.watchdog_status =
                        IF b.frozen_watchdog_status # "None"
                        THEN b.frozen_watchdog_status ELSE @,
                   !.frozen_watchdog_status = "None"]

\* DeviceB._watchdog_timeout with the scale of construction time (1.0)
\* in place of the current one
DeviceB_watchdog_timeout_stale(scale) == base_watchdog_timeout * 1

\* DeviceB._watchdog_timeout
DeviceB_watchdog_timeout(scale) == base_watchdog_timeout * scale

\* one turn of the monitor's loop without its test of running and frozen
DeviceB_watchdog_monitor_unguarded(b, scale, t) ==
    IF t - b.last_watchdog_reset > DeviceB_watchdog_timeout(scale)
    THEN [b EXCEPT !.watchdog_status = "triggered"]
    ELSE b

\* one turn of the loop of DeviceB._watchdog_monitor, at time t
DeviceB_watchdog_monitor(b, scale, t) ==
    IF b.running /\ ~b.frozen
    THEN IF t - b.last_watchdog_reset > DeviceB_watchdog_timeout(scale)
         THEN IF b.watchdog_status # "triggered"
              THEN [b EXCEPT !.watchdog_status = "triggered"]
              ELSE b
         ELSE b
    ELSE b

\* DeviceB.handle_frame taking every frame that is not a control frame for
\* a watchdog reset
DeviceB_handle_frame_resets_on_any(b, data, t) ==
    IF b.frozen THEN [b |-> b, ret |-> None]
    ELSE LET frame == from_ethernet(data)
         IN  IF ~frame.ok THEN [b |-> b, ret |-> frame]
             ELSE IF frame.can_id = 512
             THEN IF Len(frame.data) < 1 THEN [b |-> b, ret |-> IndexError]
                  ELSE [b |-> [b EXCEPT !.control = frame.data[1],
                                        !.last_command = t],
                        ret |-> None]
             ELSE LET b1 == [b EXCEPT !.last_watchdog_reset = t]
                  IN  IF Len(frame.data) < 1 THEN [b |-> b1, ret |-> IndexError]
                      ELSE [b |-> [b1 EXCEPT !.watchdog = frame.data[1],
                                             !.watchdog_status = "ok"],
                            ret |-> None]

\* DeviceB.handle_frame: the device after the call and None, or the
\* exception raised (a reset frame with an empty payload raises IndexError
\* after the reset time is set)
DeviceB_handle_frame(b, data, t) ==
    IF b.frozen THEN [b |-> b, ret |-> None]
    ELSE LET frame == from_ethernet(data)
         IN  IF ~frame.ok THEN [b |-> b, ret |-> frame]
             ELSE IF frame.can_id = 256
             THEN LET b1 == [b EXCEPT !.last_watchdog_reset = t]
                  IN  IF Len(frame.data) < 1 THEN [b |-> b1, ret |-> IndexError]
                      ELSE [b |-> [b1 EXCEPT !.watchdog = frame.data[1],
                                             !.watchdog_status = "ok"],
                            ret |-> None]
             ELSE IF frame.can_id = 512
             THEN IF Len(frame.data) < 1 THEN [b |-> b, ret |-> IndexError]
                  ELSE [b |-> [b EXCEPT !.control = frame.data[1],
                                        !.last_command = t],
                        ret |-> None]
             ELSE [b |-> b, ret |-> None]

-----------------------------------------------------------------------------
(* asyncio: tasks and the loop's queue of ready steps.  A task that is not *)
(* done is tasks[id] = [kind, pc, must_cancel, wake]; a task sleeping on a *)
(* timer has pc = "sleeping" and is not in the queue, every other task is. *)

MaxTasks == 2

TaskIds == 1..MaxTasks

\* self.watchdog_task = None, and a watchdog_task that is done
NoTask == 0
DoneTask == -1

FreeIds(w) == TaskIds \ DOMAIN w.tasks

NewId(w) == CHOOSE i \in FreeIds(w) : \A j \in FreeIds(w) : i <= j

\* asyncio.create_task(coro): the task is queued for its first step
create_task(w, id, kind) ==
    [w EXCEPT !.tasks = DictSet(@, id, [kind |-> kind, pc |-> "new",
                                        must_cancel |-> FALSE, wake |-> 0]),
              !.ready = Append(@, id)]

\* task.cancel(): nothing on a task that is done; a task that sleeps or
\* waits for a send is woken to receive CancelledError; a queued task
\* receives it at its next step
cancel(w, id) ==
    IF id \notin DOMAIN w.tasks THEN w
    ELSE IF w.tasks[id].pc \in {"sleeping", "sending"}
    THEN [w EXCEPT !.tasks[id].must_cancel = TRUE,
                   !.tasks[id].pc = "woken",
                   !.ready = Append(@, id)]
    ELSE [w EXCEPT !.tasks[id].must_cancel = TRUE]

\* the task id has finished: it is done, and so is watchdog_task if it is id
finish(w, id) ==
    [w EXCEPT !.tasks = [k \in (DOMAIN @) \ {id} |-> @[k]],
              !.app.watchdog_task = IF @ = id THEN DoneTask ELSE @]

\* task.done() of self.watchdog_task
watchdog_task_done(w) == w.app.watchdog_task \notin DOMAIN w.tasks

-----------------------------------------------------------------------------
(* cloud_app.py: watchdog and freeze control *)

\* the frame of a watchdog reset, CANFrame(False, False, 0x100, [0x01])
watchdog_reset_frame == CANFrame_init(FALSE, FALSE, 256, <<1>>)

\* one step of the task CloudApp._watchdog_sender (id), at time t: from its
\* start or from a sleep to its next sleep or its end
watchdog_sender_step(w, id, t) ==
    LET task == w.tasks[id]
    IN  IF task.must_cancel
        THEN \* a task cancelled before its first step never enters the try
             IF task.pc = "new" THEN finish(w, id)
             ELSE finish([w EXCEPT !.app.auto_watchdog_enabled = FALSE], id)
        ELSE IF ~w.app.auto_watchdog_enabled THEN finish(w, id)
        ELSE LET h  == IF ~w.app.frozen
                       THEN DeviceB_handle_frame(w.device_b, to_ethernet(watchdog_reset_frame), t)
                       ELSE [b |-> w.device_b, ret |-> None]
                 w1 == IF ~w.app.frozen
                       THEN [w EXCEPT !.device_b = h.b, !.app.last_watchdog_reset_time = t]
                       ELSE w
                 delay == w.app.watchdog_interval * w.SCALE_TIMING
             IN  IF ~h.ret.ok
                 THEN finish([w EXCEPT !.device_b = h.b,
                                       !.app.auto_watchdog_enabled = FALSE], id)
                 ELSE IF delay = 0
                 THEN [w1 EXCEPT !.tasks[id].pc = "woken", !.ready = Append(@, id)]
                 ELSE [w1 EXCEPT !.tasks[id].pc = "sleeping", !.tasks[id].wake = t + delay]

\* the end of CloudApp.start_auto_watchdog, from "if self.watchdog_interval > 0"
start_auto_watchdog_end(w, id) ==
    IF w.app.watchdog_interval > 0
    THEN LET w1 == finish(w, id)
             new == NewId(w1)
         IN  [create_task(w1, new, "watchdog_sender")
                 EXCEPT !.app.auto_watchdog_enabled = TRUE,
                        !.app.watchdog_task = new]
    ELSE finish([w EXCEPT !.app.auto_watchdog_enabled = FALSE], id)

\* one step of the task CloudApp.start_auto_watchdog (id): from its start to
\* "await asyncio.sleep(0)" or, with no watchdog task, to its end; or from
\* the sleep to its end
start_auto_watchdog_step(w, id) ==
    LET task == w.tasks[id]
    IN  IF task.must_cancel THEN finish(w, id)
        ELSE IF task.pc = "new"
        THEN IF w.app.watchdog_task # NoTask
             THEN LET w1 == cancel(w, w.app.watchdog_task)
                  IN  [w1 EXCEPT !.tasks[id].pc = "woken", !.ready = Append(@, id)]
             ELSE start_auto_watchdog_end(w, id)
        ELSE start_auto_watchdog_end(w, id)

\* CloudApp.set_watchdog_interval; interval in ticks
set_watchdog_interval(w, id, interval) ==
    LET w1 == [w EXCEPT !.app.watchdog_interval = Max(0, interval)]
    IN  [w |-> create_task(w1, id, "start_auto_watchdog"),
         ret |-> [ok |-> TRUE, status |-> "ok", interval |-> w1.app.watchdog_interval,
                  auto_watchdog_enabled |-> w1.app.watchdog_interval > 0]]

\* CloudApp.set_frozen
set_frozen(w, id, state) ==
    LET w1 == [w EXCEPT !.app.frozen = state,
                        !.device_a.running = ~state,
                        !.device_b = DeviceB_set_running(@, ~state),
                        !.module_c = ModuleC_set_running(@, ~state)]
    IN  IF state
        THEN LET w2 == [w1 EXCEPT !.app.has_watchdog_state_before_freeze = TRUE,
                                  !.app.watchdog_state_before_freeze = w.app.auto_watchdog_enabled,
                                  !.app.auto_watchdog_enabled = FALSE]
             IN  IF w2.app.watchdog_task # NoTask /\ ~watchdog_task_done(w2)
                 THEN cancel(w2, w2.app.watchdog_task)
                 ELSE w2
        ELSE IF w1.app.has_watchdog_state_before_freeze
             THEN LET w2 == [w1 EXCEPT !.app.auto_watchdog_enabled =
                                            w1.app.watchdog_state_before_freeze]
                  IN  IF w2.app.auto_watchdog_enabled
                      THEN create_task(w2, id, "start_auto_watchdog")
                      ELSE w2
             ELSE w1

\* whether set_frozen(state) creates a task
set_frozen_creates_task(w, state) ==
    ~state /\ w.app.has_watchdog_state_before_freeze /\ w.app.watchdog_state_before_freeze

\* CloudApp.toggle_freeze
toggle_freeze(w, id) ==
    LET state == ~w.app.frozen
    IN  [w |-> set_frozen([w EXCEPT !.app.frozen = state], id, state),
         ret |-> [ok |-> TRUE, status |-> "ok",
                  state |-> IF ~w.app.running THEN "frozen" ELSE "running"]]

\* CloudApp.send_watchdog_reset
send_watchdog_reset(w, t) ==
    LET frame_bytes == to_ethernet(watchdog_reset_frame)
        p == process_device_frame(w, frame_bytes, t)
        h == DeviceB_handle_frame(p.w.device_b, frame_bytes, t)
    IN  IF ~p.ret.ok THEN p
        ELSE IF ~h.ret.ok THEN [w |-> [p.w EXCEPT !.device_b = h.b], ret |-> h.ret]
        ELSE [w |-> [p.w EXCEPT !.device_b = h.b, !.app.last_watchdog_reset_time = t],
              ret |-> [ok |-> TRUE, status |-> "ok",
                       watchdog_status |-> p.w.app.last_watchdog_status]]

\* send_control_value with the register written before the value is validated
send_control_value_writes_first(w, value, t) ==
    LET error == [ok |-> TRUE, status |-> "error"]
        w1 == [w EXCEPT !.device_b.control = value, !.device_b.last_command = t]
    IN  IF ~(0 <= value /\ value <= 255) THEN [w |-> w1, ret |-> error]
        ELSE LET frame_bytes == to_ethernet(CANFrame_init(FALSE, FALSE, 512, <<value % 256>>))
                 p == process_device_frame(w1, frame_bytes, t)
                 h == DeviceB_handle_frame(p.w.device_b, frame_bytes, t)
             IN  IF ~p.ret.ok THEN [w |-> p.w, ret |-> error]
                 ELSE IF ~h.ret.ok THEN [w |-> [p.w EXCEPT !.device_b = h.b], ret |-> error]
                 ELSE [w |-> [p.w EXCEPT !.device_b = h.b],
                       ret |-> [ok |-> TRUE, status |-> "ok", value |-> value]]

\* CloudApp.send_control_value: every exception is caught and reported as
\* an error result
send_control_value(w, value, t) ==
    LET error == [ok |-> TRUE, status |-> "error"]
    IN  IF ~(0 <= value /\ value <= 255) THEN [w |-> w, ret |-> error]
        ELSE LET frame_bytes == to_ethernet(CANFrame_init(FALSE, FALSE, 512, <<value % 256>>))
                 p == process_device_frame(w, frame_bytes, t)
                 h == DeviceB_handle_frame(p.w.device_b, frame_bytes, t)
             IN  IF ~p.ret.ok THEN [w |-> p.w, ret |-> error]
                 ELSE IF ~h.ret.ok THEN [w |-> [p.w EXCEPT !.device_b = h.b], ret |-> error]
                 ELSE [w |-> [p.w EXCEPT !.device_b = [h.b EXCEPT !.control = value,
                                                                 !.last_command = t]],
                       ret |-> [ok |-> TRUE, status |-> "ok", value |-> value]]

\* the device_b part and the cloud_app flags of CloudApp.get_status
get_status(w) ==
    [device_b |->
        [control |-> w.device_b.control, status |-> w.device_b.status,
         watchdog |-> w.device_b.watchdog,
         watchdog_status |-> IF w.app.frozen THEN w.device_b.frozen_watchdog_status
                             ELSE w.device_b.watchdog_status,
         last_command |-> w.device_b.last_command],
     module_c |-> w.module_c,
     device_a |-> w.device_a,
     auto_watchdog_interval |-> w.app.watchdog_interval,
     auto_watchdog_enabled |-> w.app.auto_watchdog_enabled,
     last_watchdog_status |-> w.app.last_watchdog_status,
     last_watchdog_reset |-> w.app.last_watchdog_reset_time,
     pipeline_stats |-> w.app.pipeline_stats,
     frozen |-> w.app.frozen]

-----------------------------------------------------------------------------
(* device_emulator.py and cloud_app.py: the producers.  A generator is     *)
(* "None", "created" (not started), "yielded" (suspended at its yield) or  *)
(* "sleeping" (in its timed wait, inside an anext of a broadcaster), or    *)
(* "closed" (ended by the cancellation of the broadcaster inside it).      *)
(* The broadcaster is the task BroadcasterId; its field "at" tells where   *)
(* it is suspended: "loop" (its own sleep), "gen_a", "gen_b" (a            *)
(* generator's sleep), "send_a", "send_b" (a send to a websocket client),  *)
(* "start_b" (the sleep(0) of start_auto_watchdog inside CloudApp.start).  *)

BroadcasterId == MaxTasks + 1

\* the payload of Device A's status frame
DeviceA_frame_data(a) ==
    <<a.operational, (a.uptime \div 16777216) % 256, (a.uptime \div 65536) % 256,
      (a.uptime \div 256) % 256, a.uptime % 256>>

\* the body of the loop of DeviceA.generate_frames at time t, without its
\* test of the running flag
DeviceA_generate_unguarded(a, t) ==
    LET a1 == [a EXCEPT !.uptime = (t - a.start_time) \div 10,
                        !.operational = DeviceA_get_operational_value(t)]
    IN  [a |-> a1, yielded |-> TRUE,
         frame |-> to_ethernet(CANFrame_init(TRUE, FALSE, DEVICE_A_STATUS_ID,
                                             DeviceA_frame_data(a1)))]

\* one turn of the loop of DeviceA.generate_frames at time t, up to its
\* yield or its sleep
DeviceA_generate(a, t) ==
    IF a.running
    THEN LET a1 == [a EXCEPT !.uptime = (t - a.start_time) \div 10,
                             !.operational = DeviceA_get_operational_value(t)]
         IN  [a |-> a1, yielded |-> TRUE,
              frame |-> to_ethernet(CANFrame_init(TRUE, FALSE, DEVICE_A_STATUS_ID,
                                                  DeviceA_frame_data(a1)))]
    ELSE [a |-> a, yielded |-> FALSE, frame |-> <<>>]

\* one turn of the loop of DeviceB.generate_frames with the control register
\* put first in the payload and the status register second
DeviceB_generate_swapped(b) ==
    IF b.running
    THEN [yielded |-> TRUE,
          frame |-> to_ethernet(CANFrame_init(TRUE, FALSE, DEVICE_B_STATUS_ID,
                        <<b.control % 256, b.status % 256, b.watchdog % 256,
                          IF b.watchdog_status = "ok" THEN 1 ELSE 0>>))]
    ELSE [yielded |-> FALSE, frame |-> <<>>]

\* one turn of the loop of DeviceB.generate_frames, up to its yield or its sleep
DeviceB_generate(b) ==
    IF b.running
    THEN [yielded |-> TRUE,
          frame |-> to_ethernet(CANFrame_init(TRUE, FALSE, DEVICE_B_STATUS_ID,
                        <<b.status % 256, b.control % 256, b.watchdog % 256,
                          IF b.watchdog_status = "ok" THEN 1 ELSE 0>>))]
    ELSE [yielded |-> FALSE, frame |-> <<>>]

\* CloudApp.get_device_a_frame in a running application with generator A
\* at the top of its loop: the generator's turn and, of a frame it yields,
\* process_device_frame
get_device_a_frame(w, t) ==
    LET g == DeviceA_generate(w.device_a, t)
    IN  IF g.yielded
        THEN process_device_frame([w EXCEPT !.device_a = g.a], g.frame, t).w
        ELSE w

\* CloudApp.start at the start of the server: the generators and the
\* broadcaster task are created
start(w) ==
    IF w.app.running THEN w
    ELSE [w EXCEPT !.app.running = TRUE,
                   !.app.device_a_generator = "created",
                   !.app.device_b_generator = "created",
                   !.tasks = DictSet(@, BroadcasterId,
                                     [kind |-> "frame_broadcaster", pc |-> "new",
                                      must_cancel |-> FALSE, wake |-> 0, at |-> "loop"]),
                   !.ready = Append(@, BroadcasterId)]

-----------------------------------------------------------------------------
(* The background tasks of the whole system and its lifecycle.  Besides    *)
(* the auto-watchdog tasks and the broadcaster there are the task of       *)
(* Module C's cycle, the task of Device B's watchdog monitor and the       *)
(* stats-reset task; the coroutine CloudApp.stop, suspended while it       *)
(* awaits a task it has cancelled, is the entry StopId, whose field "at"   *)
(* is the position in _device_tasks of the task it awaits.                 *)

ModuleCId == MaxTasks + 2
MonitorId == MaxTasks + 3
ResetId == MaxTasks + 4
StopId == MaxTasks + 5

\* the second task of Module C and the second broadcaster, which a call of
\* CloudApp.start from inside the first broadcaster creates
ModuleCId2 == MaxTasks + 6
BroadcasterId2 == MaxTasks + 7

\* ModuleC._base_cycle_time, 0.1 s
base_cycle_time == 1

\* ModuleC._cycle_time
ModuleC_cycle_time(scale) == scale * base_cycle_time

\* one step of the task ModuleC.process_data (id) at time t: one cycle, up
\* to its sleep (the calculation takes no time)
process_data_step(w, id, t) ==
    IF w.tasks[id].must_cancel THEN finish(w, id)
    ELSE [w EXCEPT !.module_c = ModuleC_process_data(@, t),
                   !.tasks[id].pc = "sleeping",
                   !.tasks[id].wake = t + ModuleC_cycle_time(w.SCALE_TIMING)]

\* one step of the task DeviceB._watchdog_monitor (id) at time t: one check,
\* up to its sleep of 0.1 * scale; CancelledError breaks the loop
watchdog_monitor_step(w, id, t) ==
    IF w.tasks[id].must_cancel THEN finish(w, id)
    ELSE [w EXCEPT !.device_b = DeviceB_watchdog_monitor(@, w.SCALE_TIMING, t),
                   !.tasks[id].pc = "sleeping",
                   !.tasks[id].wake = t + 1 * w.SCALE_TIMING]

\* the sleep of CloudApp._reset_counters_periodic: asyncio.sleep(10)
reset_counters_sleep == 100

\* one step of the task CloudApp._reset_counters_periodic (id) at time t:
\* from its start to its sleep, or from a sleep through one reset to the
\* next sleep
reset_counters_step(w, id, t) ==
    IF w.tasks[id].must_cancel THEN finish(w, id)
    ELSE IF w.tasks[id].pc = "new"
    THEN [w EXCEPT !.tasks[id].pc = "sleeping",
                   !.tasks[id].wake = t + reset_counters_sleep]
    ELSE [reset_counters(w, t) EXCEPT !.tasks[id].pc = "sleeping",
                                      !.tasks[id].wake = t + reset_counters_sleep]

\* DeviceB.start_watchdog: the monitor task is created unless one is running
DeviceB_start_watchdog(w) ==
    IF MonitorId \in DOMAIN w.tasks THEN w
    ELSE create_task(w, MonitorId, "watchdog_monitor")

\* CloudApp.start with a watchdog interval of 0: the generators, Device B's
\* monitor, and the tasks of Module C and of the broadcaster, which are
\* appended to _device_tasks
CloudApp_start(w) ==
    IF w.app.running THEN w
    ELSE LET w1 == DeviceB_start_watchdog(
                       [w EXCEPT !.app.running = TRUE,
                                 !.app.device_a_generator = "created",
                                 !.app.device_b_generator = "created"])
             w2 == create_task(w1, ModuleCId, "process_data")
         IN  [w2 EXCEPT !.app.device_tasks = @ \o <<ModuleCId, BroadcasterId>>,
                        !.tasks = DictSet(@, BroadcasterId,
                                          [kind |-> "frame_broadcaster", pc |-> "new",
                                           must_cancel |-> FALSE, wake |-> 0, at |-> "loop"]),
                        !.ready = Append(@, BroadcasterId)]

\* await asyncio.sleep(0.1 * scale), or a generator's sleep of 1 / frame_rate
\* (the same time), of the broadcaster id suspended at "at"
broadcaster_sleep(w, id, at, t) ==
    [w EXCEPT !.tasks[id].pc = "sleeping",
              !.tasks[id].at = at,
              !.tasks[id].wake = t + 1 * w.SCALE_TIMING]

\* CloudApp._broadcast_frame: with a client connected the send suspends the
\* broadcaster id at "at"
broadcaster_send(w, id, at) ==
    [w EXCEPT !.tasks[id].pc = "sending", !.tasks[id].at = at]

\* get_device_b_frame with generator B at the top of its loop, and the rest
\* of the broadcaster's turn
broadcaster_b_loop(w, id, t) ==
    LET g == DeviceB_generate(w.device_b)
    IN  IF g.yielded
        THEN LET w1 == [w EXCEPT !.app.device_b_generator = "yielded"]
                 p  == process_device_frame(w1, g.frame, t)
             IN  IF p.ret.ok /\ p.w.app.active_websockets > 0
                 THEN broadcaster_send(p.w, id, "send_b")
                 ELSE broadcaster_sleep(p.w, id, "loop", t)
        ELSE broadcaster_sleep([w EXCEPT !.app.device_b_generator = "sleeping"], id, "gen_b", t)

\* start_auto_watchdog, awaited inside CloudApp.start, from its test of the
\* interval to its end
auto_watchdog_in_start(w) ==
    IF w.app.watchdog_interval > 0
    THEN LET new == NewId(w)
         IN  [create_task(w, new, "watchdog_sender")
                 EXCEPT !.app.auto_watchdog_enabled = TRUE,
                        !.app.watchdog_task = new]
    ELSE [w EXCEPT !.app.auto_watchdog_enabled = FALSE]

\* get_device_b_frame called by the broadcaster id when _running is false:
\* CloudApp.start runs inside the broadcaster.  It makes new generators,
\* creates a second task of Module C and a second broadcaster, appends them
\* to _device_tasks, and with a positive interval awaits
\* start_auto_watchdog, which suspends the broadcaster at sleep(0) when
\* there is a watchdog task to cancel; then the frame is fetched
start_in_get_frame(w, id, t) ==
    LET w1 == DeviceB_start_watchdog(
                  [w EXCEPT !.app.running = TRUE,
                            !.app.device_a_generator = "created",
                            !.app.device_b_generator = "created"])
        w2 == create_task(w1, ModuleCId2, "process_data")
        w3 == [w2 EXCEPT !.app.device_tasks = @ \o <<ModuleCId2, BroadcasterId2>>,
                         !.tasks = DictSet(@, BroadcasterId2,
                                           [kind |-> "frame_broadcaster", pc |-> "new",
                                            must_cancel |-> FALSE, wake |-> 0, at |-> "loop"]),
                         !.ready = Append(@, BroadcasterId2)]
    IN  IF w3.app.watchdog_interval > 0
        THEN IF w3.app.watchdog_task # NoTask
             THEN [cancel(w3, w3.app.watchdog_task)
                      EXCEPT !.tasks[id].pc = "woken",
                             !.tasks[id].at = "start_b",
                             !.ready = Append(@, id)]
             ELSE broadcaster_b_loop(auto_watchdog_in_start(w3), id, t)
        ELSE broadcaster_b_loop(w3, id, t)

\* the broadcaster id from its call of get_device_b_frame.  anext on a
\* generator in which another task is suspended raises RuntimeError, and on
\* a generator that a cancellation has closed StopAsyncIteration (the
\* generator is then made anew); both are caught and no frame is returned
broadcaster_from_b(w, id, t) ==
    IF ~w.app.running THEN start_in_get_frame(w, id, t)
    ELSE IF w.app.device_b_generator = "sleeping"
    THEN broadcaster_sleep(w, id, "loop", t)
    ELSE IF w.app.device_b_generator = "closed"
    THEN broadcaster_sleep([w EXCEPT !.app.device_b_generator = "created"], id, "loop", t)
    ELSE IF w.app.device_b_generator = "yielded"
    THEN broadcaster_sleep([w EXCEPT !.app.device_b_generator = "sleeping"], id, "gen_b", t)
    ELSE broadcaster_b_loop(w, id, t)

\* get_device_a_frame with generator A at the top of its loop, and the rest
\* of the broadcaster's turn
broadcaster_a_loop(w, id, t) ==
    LET g == DeviceA_generate(w.device_a, t)
    IN  IF g.yielded
        THEN LET w1 == [w EXCEPT !.app.device_a_generator = "yielded", !.device_a = g.a]
                 p  == process_device_frame(w1, g.frame, t)
             IN  IF p.ret.ok /\ p.w.app.active_websockets > 0
                 THEN broadcaster_send(p.w, id, "send_a")
                 ELSE broadcaster_from_b(p.w, id, t)
        ELSE broadcaster_sleep([w EXCEPT !.app.device_a_generator = "sleeping"], id, "gen_a", t)

\* the broadcaster id from its call of get_device_a_frame, which the loop
\* makes right after its test of _running: start is not called here
broadcaster_from_a(w, id, t) ==
    IF w.app.device_a_generator = "sleeping"
    THEN broadcaster_from_b(w, id, t)
    ELSE IF w.app.device_a_generator = "closed"
    THEN broadcaster_from_b([w EXCEPT !.app.device_a_generator = "created"], id, t)
    ELSE IF w.app.device_a_generator = "yielded"
    THEN broadcaster_sleep([w EXCEPT !.app.device_a_generator = "sleeping"], id, "gen_a", t)
    ELSE broadcaster_a_loop(w, id, t)

\* the broadcaster id receives CancelledError where it is suspended: no
\* handler on its way catches it, the generator it is suspended in is
\* closed, and the task ends
broadcaster_cancelled(w, id) ==
    LET task == w.tasks[id]
        w1   == IF task.pc # "new" /\ task.at = "gen_a"
                THEN [w EXCEPT !.app.device_a_generator = "closed"]
                ELSE IF task.pc # "new" /\ task.at = "gen_b"
                THEN [w EXCEPT !.app.device_b_generator = "closed"]
                ELSE w
    IN  finish(w1, id)

\* one step of the task CloudApp._frame_broadcaster (id) at time t: from
\* where it is suspended to its next suspension
frame_broadcaster_step(w, id, t) ==
    LET at == w.tasks[id].at
    IN  IF w.tasks[id].must_cancel THEN broadcaster_cancelled(w, id)
        ELSE IF at = "loop"
        THEN IF w.app.running /\ ~w.app.frozen
             THEN broadcaster_from_a(w, id, t)
             ELSE broadcaster_sleep(w, id, "loop", t)
        ELSE IF at = "gen_a" THEN broadcaster_a_loop(w, id, t)
        ELSE IF at = "send_a" THEN broadcaster_from_b(w, id, t)
        ELSE IF at = "gen_b" THEN broadcaster_b_loop(w, id, t)
        ELSE IF at = "start_b" THEN broadcaster_b_loop(auto_watchdog_in_start(w), id, t)
        ELSE broadcaster_sleep(w, id, "loop", t)

\* CloudApp._lifespan up to its yield: the stats-reset task is created and
\* the application started
lifespan_startup(w) == CloudApp_start(create_task(w, ResetId, "reset_counters"))

\* the loop of CloudApp.stop from the task at position i of _device_tasks:
\* a task that is not done is cancelled and awaited; after the last one the
\* list is cleared and the generators are dropped
RECURSIVE stop_loop(_, _)
stop_loop(w, i) ==
    IF i > Len(w.app.device_tasks)
    THEN finish([w EXCEPT !.app.device_tasks = <<>>,
                          !.app.device_a_generator = "None",
                          !.app.device_b_generator = "None"], StopId)
    ELSE IF w.app.device_tasks[i] \notin DOMAIN w.tasks
    THEN stop_loop(w, i + 1)
    ELSE [cancel(w, w.app.device_tasks[i]) EXCEPT !.tasks[StopId].pc = "awaiting",
                                                  !.tasks[StopId].at = i]

\* CloudApp.stop, up to its first await or its end
stop(w) ==
    stop_loop([w EXCEPT !.app.running = FALSE,
                        !.tasks = DictSet(@, StopId,
                                          [kind |-> "stop", pc |-> "new",
                                           must_cancel |-> FALSE, wake |-> 0, at |-> 0])], 1)

\* CloudApp.stop resumed after the task it awaited is done
stop_step(w) == stop_loop(w, w.tasks[StopId].at + 1)

\* CloudApp._lifespan after its yield: the stats-reset task is cancelled and
\* the application stopped
lifespan_shutdown(w) == stop(cancel(w, ResetId))

\* one step of the task id at time t, by the coroutine it runs
task_step(w, id, t) ==
    LET kind == w.tasks[id].kind
    IN  IF kind = "watchdog_sender" THEN watchdog_sender_step(w, id, t)
        ELSE IF kind = "frame_broadcaster" THEN frame_broadcaster_step(w, id, t)
        ELSE IF kind = "process_data" THEN process_data_step(w, id, t)
        ELSE IF kind = "watchdog_monitor" THEN watchdog_monitor_step(w, id, t)
        ELSE IF kind = "reset_counters" THEN reset_counters_step(w, id, t)
        ELSE IF kind = "stop" THEN stop_step(w)
        ELSE start_auto_watchdog_step(w, id)

-----------------------------------------------------------------------------
(* The steps of the running program.  Calls of the interface (the REST     *)
(* handlers and the public methods) may come between any two steps of the  *)
(* event loop; time passes only when no step is ready and no timer is due. *)

MaxTime == 12
MaxShortTime == 2
MaxFrames == 2
MaxResets == 1

ScaleInputs == {0, 1, 2}
ControlInputs == {-1, 0, 7, 255, 256}

\* the first time without a reset after which the watchdog triggers at scale 1.0
LongStep == base_watchdog_timeout + 1

\* the intervals asked of set_watchdog_interval (0.6 s, and off)
IntervalInputs == {0, LongStep}

frame_a        == to_ethernet(CANFrame_init(TRUE, FALSE, DEVICE_A_STATUS_ID, <<2, 0, 0, 0, 42>>))
frame_b_ok     == to_ethernet(CANFrame_init(TRUE, FALSE, DEVICE_B_STATUS_ID, <<0, 7, 1, 1>>))
frame_b_trig   == to_ethernet(CANFrame_init(TRUE, FALSE, DEVICE_B_STATUS_ID, <<0, 7, 1, 0>>))
frame_watchdog == to_ethernet(watchdog_reset_frame)
frame_control  == to_ethernet(CANFrame_init(FALSE, FALSE, CONTROL_FRAME_ID, <<7>>))
frame_other    == to_ethernet(CANFrame_init(FALSE, FALSE, 291, <<9>>))
frame_a_empty  == to_ethernet(CANFrame_init(TRUE, FALSE, DEVICE_A_STATUS_ID, <<>>))
frame_other_ext == to_ethernet(CANFrame_init(TRUE, TRUE, 291, <<>>))

\* byte strings of a wrong length
BadLengthInputs == {<<>>, SubSeq(frame_a, 1, 12), frame_watchdog \o <<0>>}

\* what the transport hands to process_device_frame
PipelineInputs ==
    {frame_a, frame_b_ok, frame_b_trig, frame_watchdog, frame_control, frame_other,
     frame_a_empty, frame_other_ext} \cup BadLengthInputs

\* what is handed to Device B's handle_frame
DeviceBInputs == {frame_watchdog, frame_control, frame_other, frame_b_ok, SubSeq(frame_a, 1, 12)}

NoTimerDue == \A id \in DOMAIN tasks : tasks[id].pc = "sleeping" => tasks[id].wake > now

\* time.time() advances by one tick
Tick ==
    /\ now < MaxTime
    /\ ready = <<>>
    /\ NoTimerDue
    /\ now' = now + 1
    /\ UNCHANGED <<SCALE_TIMING, device_a, device_b, module_c, app, tasks, ready, ret, hist, codec>>

\* the same, in the runs that need little time
ShortTick ==
    /\ now < MaxShortTime
    /\ Tick

\* time.time() advances by 0.6 s
LongTick ==
    /\ now + LongStep <= MaxTime
    /\ ready = <<>>
    /\ NoTimerDue
    /\ now' = now + LongStep
    /\ UNCHANGED <<SCALE_TIMING, device_a, device_b, module_c, app, tasks, ready, ret, hist, codec>>

\* the timer of a sleeping task fires: the task is ready
TimerFire ==
    \E id \in DOMAIN tasks :
        /\ tasks[id].pc = "sleeping"
        /\ tasks[id].wake <= now
        /\ tasks' = [tasks EXCEPT ![id].pc = "woken"]
        /\ ready' = Append(ready, id)
        /\ UNCHANGED <<now, SCALE_TIMING, device_a, device_b, module_c, app, ret, hist, codec>>

\* the event loop runs the first ready step
RunReady ==
    /\ ready # <<>>
    /\ LET id == Head(ready)
           w  == [World EXCEPT !.ready = Tail(@)]
       IN  SetWorld(task_step(w, id, now))
    /\ UNCHANGED <<now, ret, hist, codec>>

\* the same, with the time at which the pipeline counts a frame of Device A
\* added to the history
RunReadyTimed ==
    /\ ready # <<>>
    /\ LET id == Head(ready)
           w  == [World EXCEPT !.ready = Tail(@)]
           w1 == task_step(w, id, now)
       IN  /\ SetWorld(w1)
           /\ hist' = IF w1.app.pipeline_stats.device_a_frames
                           = app.pipeline_stats.device_a_frames + 1
                      THEN [hist EXCEPT !.last_a_frame = now]
                      ELSE hist
    /\ UNCHANGED <<now, ret, codec>>

\* a call of the interface: its effect, its result and what it adds to the history
CallH(r, h) == SetWorld(r.w) /\ ret' = r.ret /\ hist' = h /\ UNCHANGED <<now, codec>>

Call(r) == CallH(r, hist)

\* the history after set_frozen(state): whether the auto-watchdog was
\* enabled, with an interval above 0, when the current freeze began
HistFrozen(state) ==
    IF state /\ ~app.frozen
    THEN [hist EXCEPT !.enabled_at_freeze =
                          app.auto_watchdog_enabled /\ app.watchdog_interval > 0]
    ELSE hist

\* the history after set_watchdog_interval: the interval has been changed
HistInterval == [hist EXCEPT !.enabled_at_freeze = FALSE]

\* POST /timing/scale
SetScaleTiming ==
    \E v \in ScaleInputs : Call(set_scale_timing(World, v))

\* one check of Device B's watchdog monitor
WatchdogMonitor ==
    /\ SetWorld([World EXCEPT !.device_b = DeviceB_watchdog_monitor(@, SCALE_TIMING, now)])
    /\ UNCHANGED <<now, ret, hist, codec>>

\* device_b.handle_frame(data)
HandleFrame ==
    \E data \in DeviceBInputs :
        LET h == DeviceB_handle_frame(device_b, data, now)
        IN  Call([w |-> [World EXCEPT !.device_b = h.b], ret |-> h.ret])

\* cloud_app.set_frozen(state)
SetFrozen ==
    \E state \in BOOLEAN :
        /\ set_frozen_creates_task(World, state) => FreeIds(World) # {}
        /\ CallH([w |-> set_frozen(World, NewId(World), state), ret |-> None],
                 HistFrozen(state))

\* POST /control/freeze
ToggleFreeze ==
    /\ set_frozen_creates_task(World, ~app.frozen) => FreeIds(World) # {}
    /\ CallH(toggle_freeze(World, NewId(World)), HistFrozen(~app.frozen))

\* POST /watchdog/interval
SetWatchdogInterval ==
    \E interval \in IntervalInputs :
        /\ FreeIds(World) # {}
        /\ CallH(set_watchdog_interval(World, NewId(World), interval), HistInterval)

\* POST /watchdog/reset
SendWatchdogReset ==
    /\ app.pipeline_stats.frames_processed < MaxResets
    /\ Call(send_watchdog_reset(World, now))

\* POST /device_b/control
SendControlValue ==
    \E value \in ControlInputs :
        /\ app.pipeline_stats.frames_processed < MaxFrames
        /\ Call(send_control_value(World, value, now))

\* a message on the websocket: process_device_frame(data)
ProcessDeviceFrame ==
    \E data \in PipelineInputs :
        /\ app.pipeline_stats.frames_processed < MaxFrames
        /\ Call(process_device_frame(World, data, now))

\* one turn of the stats-reset loop
ResetCounters ==
    /\ SetWorld(reset_counters(World, now))
    /\ UNCHANGED <<now, ret, hist, codec>>

\* one turn of Module C's loop
ProcessData ==
    /\ SetWorld([World EXCEPT !.module_c = ModuleC_process_data(@, now)])
    /\ UNCHANGED <<now, ret, hist, codec>>

UpdateInputs == {3, 5}

\* module_c.update_device_a(value) and module_c.update_device_b(value)
UpdateDeviceA ==
    \E value \in UpdateInputs :
        Call([w |-> [World EXCEPT !.module_c = ModuleC_update_device_a(@, value)], ret |-> None])

UpdateDeviceB ==
    \E value \in UpdateInputs :
        Call([w |-> [World EXCEPT !.module_c = ModuleC_update_device_b(@, value)], ret |-> None])

\* the start of the server (CloudApp._lifespan): CloudApp.start, with the
\* watchdog interval as constructed
Start ==
    /\ ~app.running
    /\ app.watchdog_interval = 0
    /\ Call([w |-> start(World), ret |-> None])

\* a websocket client connects, or the one connected goes away
WebSocketConnect ==
    /\ SetWorld([World EXCEPT !.app.active_websockets = 1 - @])
    /\ UNCHANGED <<now, ret, hist, codec>>

\* the send of a frame to the websocket client completes
SendComplete ==
    /\ BroadcasterId \in DOMAIN tasks
    /\ tasks[BroadcasterId].pc = "sending"
    /\ tasks' = [tasks EXCEPT ![BroadcasterId].pc = "woken"]
    /\ ready' = Append(ready, BroadcasterId)
    /\ UNCHANGED <<now, SCALE_TIMING, device_a, device_b, module_c, app, ret, hist, codec>>

\* the start of the server with all its background tasks: CloudApp._lifespan
\* up to its yield
Lifespan ==
    /\ ~app.running
    /\ ~hist.stop_called
    /\ app.watchdog_interval = 0
    /\ Call([w |-> lifespan_startup(World), ret |-> None])

\* the shutdown of the server: CloudApp._lifespan after its yield, up to the
\* first await of CloudApp.stop
Shutdown ==
    /\ app.running
    /\ ~hist.stop_called
    /\ CallH([w |-> lifespan_shutdown(World), ret |-> None],
             [hist EXCEPT !.stop_called = TRUE])

\* the task that CloudApp.stop awaits is done: stop is ready to go on
StopAwaits ==
    /\ StopId \in DOMAIN tasks
    /\ tasks[StopId].pc = "awaiting"
    /\ app.device_tasks[tasks[StopId].at] \notin DOMAIN tasks
AwaitDone ==
    /\ StopAwaits
    /\ tasks' = [tasks EXCEPT ![StopId].pc = "woken"]
    /\ ready' = Append(ready, StopId)
    /\ UNCHANGED <<now, SCALE_TIMING, device_a, device_b, module_c, app, ret, hist, codec>>

\* the first POST /watchdog/interval while the server is up
SetWatchdogIntervalUp ==
    /\ app.running
    /\ app.watchdog_task = NoTask
    /\ SetWatchdogInterval

MaxLifeTime == 2

\* time.time() advances by one tick, in the runs of the whole lifecycle
LifeTick ==
    /\ now < MaxLifeTime
    /\ ~StopAwaits
    /\ Tick

\* POST /timing/scale before the background tasks start, so that the
\* scale is constant while they run
SetScaleTimingFirst ==
    /\ ~app.running
    /\ now = 1
    /\ SetScaleTiming

MaxResetTime == 201

\* time.time() advances by one tick while the server is up, long enough for
\* two turns of the stats-reset loop
ResetTick ==
    /\ app.running
    /\ now < MaxResetTime
    /\ ready = <<>>
    /\ NoTimerDue
    /\ now' = now + 1
    /\ UNCHANGED <<SCALE_TIMING, device_a, device_b, module_c, app, tasks, ready, ret, hist, codec>>

\* POST /device_b/control in the first tick after the start of the server
SendControlValueFirst ==
    /\ app.running
    /\ now = 1
    /\ SendControlValue

\* well-formed frames that a websocket client feeds to the pipeline
frame_a_nine == to_ethernet(CANFrame_init(TRUE, FALSE, DEVICE_A_STATUS_ID, <<9, 0, 0, 0, 1>>))
FeedInputs == {frame_a, frame_a_nine, frame_b_ok, frame_b_trig, frame_control}

\* a message on the websocket with a well-formed frame
FeedFrame ==
    \E data \in FeedInputs :
        /\ app.pipeline_stats.frames_processed < MaxFrames
        /\ Call(process_device_frame(World, data, now))

\* one frame-generation cycle of Device A, its frame processed by the pipeline
GetDeviceAFrame ==
    /\ app.pipeline_stats.frames_processed < MaxFrames
    /\ Call([w |-> get_device_a_frame(World, now), ret |-> None])

MaxMinuteTime == 661

\* time.time() advances by one tick while the server is up, for more than a
\* minute of wall-clock time
MinuteTick ==
    /\ app.running
    /\ now < MaxMinuteTime
    /\ ready = <<>>
    /\ NoTimerDue
    /\ now' = now + 1
    /\ UNCHANGED <<SCALE_TIMING, device_a, device_b, module_c, app, tasks, ready, ret, hist, codec>>

MaxProducerTime == 11

\* time.time() advances by one tick, in the runs of the producers
ProducerTick ==
    /\ now < MaxProducerTime
    /\ Tick

Init == ProgramInit /\ codec = CodecIdle

\* the frames fed to the pipeline in the runs of its statistics
StatsInputs == {frame_a, frame_b_ok, frame_a_empty}

ProcessStatsFrame ==
    \E data \in StatsInputs :
        /\ app.pipeline_stats.frames_processed < MaxFrames
        /\ Call(process_device_frame(World, data, now))

\* the floats asked of set_scale_timing
FloatInputs == {-1, 0, 1, 2, 3, 5, NaN}

\* set_scale_timing(value) with any float
SetScaleTimingFloat ==
    \E v \in FloatInputs : Call(set_scale_timing(World, v))

\* the timing scale under every call of its setter
ScaleNext ==
    \/ Tick
    \/ SetScaleTimingFloat

ScaleSpec == Init /\ [][ScaleNext]_vars

\* the pipeline's statistics under frames, reset ticks, freeze and unfreeze
StatsNext ==
    \/ ShortTick
    \/ ProcessStatsFrame
    \/ ResetCounters
    \/ SetFrozen

StatsSpec == Init /\ [][StatsNext]_vars

\* control commands, in and out of range, among processed frames and freezes
ControlNext ==
    \/ ShortTick
    \/ SendControlValue
    \/ ProcessStatsFrame
    \/ SetFrozen

ControlSpec == Init /\ [][ControlNext]_vars

\* the server from its start to its shutdown, with all its background tasks
LifecycleNext ==
    \/ Lifespan
    \/ Shutdown
    \/ LifeTick
    \/ TimerFire
    \/ RunReady
    \/ AwaitDone
    \/ SetWatchdogIntervalUp

LifecycleSpec == Init /\ [][LifecycleNext]_vars

\* the server running under a constant scale for two turns of the stats reset
ResetNext ==
    \/ SetScaleTimingFirst
    \/ Lifespan
    \/ ResetTick
    \/ TimerFire
    \/ RunReady

ResetSpec == Init /\ [][ResetNext]_vars

\* the server with all its periodic loops under changes of the timing scale
TimingNext ==
    \/ Lifespan
    \/ SetScaleTiming
    \/ SetWatchdogIntervalUp
    \/ LifeTick
    \/ TimerFire
    \/ RunReady

TimingSpec == Init /\ [][TimingNext]_vars

\* the server emitting frames, running and unfrozen, under a constant scale
EmissionNext ==
    \/ SetScaleTimingFirst
    \/ Lifespan
    \/ Tick
    \/ TimerFire
    \/ RunReadyTimed

EmissionSpec == Init /\ [][EmissionNext]_vars

\* the server running through every second of the minute, with control
\* commands
MinuteNext ==
    \/ SetScaleTimingFirst
    \/ Lifespan
    \/ MinuteTick
    \/ TimerFire
    \/ RunReady
    \/ SendControlValueFirst

MinuteSpec == Init /\ [][MinuteNext]_vars

\* Device A's generation cycle among well-formed frames fed from outside
FeedNext ==
    \/ ShortTick
    \/ FeedFrame
    \/ GetDeviceAFrame
    \/ ResetCounters

FeedSpec == Init /\ [][FeedNext]_vars

\* the server emitting status frames while commands change Device B's
\* registers and its watchdog runs out
StatusNext ==
    \/ Lifespan
    \/ Tick
    \/ TimerFire
    \/ RunReady
    \/ SendControlValue
    \/ SendWatchdogReset

StatusSpec == Init /\ [][StatusNext]_vars

\* the operator's commands to Device B while the system is frozen and while
\* it is not
CommandNext ==
    \/ ShortTick
    \/ SetFrozen
    \/ SendControlValue
    \/ SendWatchdogReset

CommandSpec == Init /\ [][CommandNext]_vars

\* the intervals asked of set_watchdog_interval, a negative one among them
AnyIntervalInputs == {-1, 0, LongStep}

\* POST /watchdog/interval with any number
SetAnyWatchdogInterval ==
    \E interval \in AnyIntervalInputs :
        /\ FreeIds(World) # {}
        /\ CallH(set_watchdog_interval(World, NewId(World), interval), HistInterval)

\* the auto-watchdog switched on and off, by any interval, under freeze and
\* unfreeze
IntervalNext ==
    \/ LongTick
    \/ TimerFire
    \/ RunReady
    \/ SetFrozen
    \/ SetAnyWatchdogInterval

IntervalSpec == Init /\ [][IntervalNext]_vars

MaxStopTime == 4

\* time.time() advances by one tick while no wakeup is outstanding, in the
\* runs of the shutdown
StopTick ==
    /\ now < MaxStopTime
    /\ ~StopAwaits
    /\ Tick

\* a timer fires, unless the wakeup of CloudApp.stop has yet to be queued:
\* the end of the awaited task queues it at once
TimerFireInOrder ==
    /\ ~StopAwaits
    /\ TimerFire

\* the event loop runs the first ready step, the wakeup of CloudApp.stop
\* having been queued at the end of the task it awaited
RunReadyInOrder ==
    /\ ~StopAwaits
    /\ RunReady

\* the shutdown of the server while its broadcaster is anywhere in its turn
StopNext ==
    \/ Lifespan
    \/ Shutdown
    \/ StopTick
    \/ TimerFireInOrder
    \/ RunReadyInOrder
    \/ AwaitDone

StopSpec == Init /\ [][StopNext]_vars

\* an interval below the base watchdog timeout: 0.3 s
ShortInterval == 3

\* the first POST /watchdog/interval while the server is up, with the short
\* interval
SetShortWatchdogInterval ==
    /\ app.running
    /\ app.watchdog_task = NoTask
    /\ FreeIds(World) # {}
    /\ CallH(set_watchdog_interval(World, NewId(World), ShortInterval), HistInterval)

MaxScaledTime == 7

\* time.time() advances by one tick while the server is up, long enough for
\* a wait of the sender at scale 2
ScaledTick ==
    /\ app.running
    /\ now < MaxScaledTime
    /\ Tick

\* the auto-watchdog and Device B's monitor while the timing scale changes
ScaledWatchdogNext ==
    \/ Lifespan
    \/ SetScaleTiming
    \/ SetShortWatchdogInterval
    \/ ScaledTick
    \/ TimerFire
    \/ RunReady

ScaledWatchdogSpec == Init /\ [][ScaledWatchdogNext]_vars

\* a frame for each counter, one whose handler fails and one with no handler
CounterInputs == {frame_a_empty, frame_b_ok, frame_watchdog, frame_control, frame_other}

ProcessCounterFrame ==
    \E data \in CounterInputs :
        /\ app.pipeline_stats.frames_processed < MaxFrames
        /\ Call(process_device_frame(World, data, now))

\* frames of every kind, those whose handler fails among them, processed
\* between turns of the stats-reset loop
CounterNext ==
    \/ ShortTick
    \/ ProcessCounterFrame
    \/ ResetCounters
    \/ SetFrozen

CounterSpec == Init /\ [][CounterNext]_vars

\* well-formed watchdog-reset frames: the one the application sends, one
\* with another payload byte, and one with an empty payload
frame_watchdog_five  == to_ethernet(CANFrame_init(FALSE, FALSE, WATCHDOG_FRAME_ID, <<5>>))
frame_watchdog_empty == to_ethernet(CANFrame_init(FALSE, FALSE, WATCHDOG_FRAME_ID, <<>>))
ResetInputs == {frame_watchdog, frame_watchdog_five, frame_watchdog_empty}

\* device_b.handle_frame(data) with a watchdog-reset frame
HandleResetFrame ==
    \E data \in ResetInputs :
        LET h == DeviceB_handle_frame(device_b, data, now)
        IN  Call([w |-> [World EXCEPT !.device_b = h.b], ret |-> h.ret])

\* Device B given watchdog-reset frames while its watchdog runs
ResetFrameNext ==
    \/ Tick
    \/ WatchdogMonitor
    \/ HandleResetFrame
    \/ SetFrozen

ResetFrameSpec == Init /\ [][ResetFrameNext]_vars

\* frames with a reserved identifier whose payload is too short for their
\* handler, and two that are long enough
frame_control_empty == to_ethernet(CANFrame_init(FALSE, FALSE, CONTROL_FRAME_ID, <<>>))
frame_b_three == to_ethernet(CANFrame_init(TRUE, FALSE, DEVICE_B_STATUS_ID, <<0, 9, 0>>))
frame_b_one   == to_ethernet(CANFrame_init(TRUE, FALSE, DEVICE_B_STATUS_ID, <<0>>))
ShortPayloadInputs == {frame_a_empty, frame_control_empty, frame_b_three, frame_b_one}

\* process_device_frame(data) with a short or a full payload
ProcessShortFrame ==
    \E data \in ShortPayloadInputs \cup {frame_a, frame_b_ok} :
        /\ app.pipeline_stats.frames_processed < MaxFrames
        /\ Call(process_device_frame(World, data, now))

\* the pipeline given frames whose handler raises
ShortPayloadNext ==
    \/ ShortTick
    \/ ProcessShortFrame
    \/ SetFrozen

ShortPayloadSpec == Init /\ [][ShortPayloadNext]_vars

\* the producers under freeze, unfreeze and the freeze toggle
ProducerNext ==
    \/ Start
    \/ ProducerTick
    \/ TimerFire
    \/ RunReady
    \/ SendComplete
    \/ WebSocketConnect
    \/ SetFrozen
    \/ ToggleFreeze

ProducerSpec == Init /\ [][ProducerNext]_vars

\* the frame pipeline under freeze and unfreeze
PipelineNext ==
    \/ ShortTick
    \/ ProcessDeviceFrame
    \/ SetFrozen

PipelineSpec == Init /\ [][PipelineNext]_vars

\* Module C under freeze and unfreeze
ModuleCNext ==
    \/ ShortTick
    \/ ProcessData
    \/ UpdateDeviceA
    \/ UpdateDeviceB
    \/ SetFrozen

ModuleCSpec == Init /\ [][ModuleCNext]_vars

\* Device B's watchdog under reset and control frames, scale changes,
\* freeze and unfreeze
WatchdogNext ==
    \/ Tick
    \/ SetScaleTiming
    \/ WatchdogMonitor
    \/ HandleFrame
    \/ SetFrozen

WatchdogSpec == Init /\ [][WatchdogNext]_vars

\* freeze control with the auto-watchdog tasks
FreezeNext ==
    \/ LongTick
    \/ TimerFire
    \/ RunReady
    \/ WatchdogMonitor
    \/ SetFrozen
    \/ SetWatchdogInterval
    \/ SendWatchdogReset

FreezeSpec == Init /\ [][FreezeNext]_vars

-----------------------------------------------------------------------------
(* The codec exercised on its own: a frame is constructed from arguments,  *)
(* encoded, and the bytes decoded again; or raw bytes are decoded.         *)

MaxAllCombos == 3

ByteSamples == {0, 255}
IdSamples == {0, 1, 255, 256, 2047, 2048, 65536, 419364865, 536870911, 536870912, -1}

\* every payload over ByteSamples up to MaxAllCombos bytes, and longer
\* payloads (up to one byte more than a frame may hold) of three patterns
PatternPayloads ==
    { [i \in 1..n |-> (37 * i) % 256] : n \in 0..(CAN_FRAME_MAX_DATA_LENGTH + 1) }
    \cup { [i \in 1..n |-> 0] : n \in 0..(CAN_FRAME_MAX_DATA_LENGTH + 1) }
    \cup { [i \in 1..n |-> IF i = n THEN 0 ELSE 255] : n \in 0..(CAN_FRAME_MAX_DATA_LENGTH + 1) }
PayloadSamples ==
    UNION { [1..n -> ByteSamples] : n \in 0..MaxAllCombos } \cup PatternPayloads

CodecInit ==
    /\ ProgramInit
    /\ \E e \in BOOLEAN, r \in BOOLEAN, id \in IdSamples, d \in PayloadSamples :
        codec = [pc |-> "args", args |-> <<e, r, id, d>>, frame |-> NoFrame,
                 wire |-> <<>>, decoded |-> NoFrame]

\* CANFrame(extended, remote, can_id, data)
Construct ==
    /\ codec.pc = "args"
    /\ LET f == CANFrame_init(codec.args[1], codec.args[2], codec.args[3], codec.args[4])
       IN  codec' = [codec EXCEPT !.frame = f,
                                  !.pc = IF f.ok THEN "frame" ELSE "rejected"]
    /\ UNCHANGED progvars

\* frame.to_ethernet()
Encode ==
    /\ codec.pc = "frame"
    /\ codec' = [codec EXCEPT !.wire = to_ethernet(codec.frame), !.pc = "wire"]
    /\ UNCHANGED progvars

\* CANFrame.from_ethernet(bytes)
Decode ==
    /\ codec.pc = "wire"
    /\ codec' = [codec EXCEPT !.decoded = from_ethernet(codec.wire), !.pc = "decoded"]
    /\ UNCHANGED progvars

CodecNext == Construct \/ Encode \/ Decode

CodecSpec == CodecInit /\ [][CodecNext]_vars

-----------------------------------------------------------------------------
(* Claims about the codec *)

\* C1: decoding the encoding of a valid frame gives a frame with the same
\* extended flag, remote flag, identifier and payload.
C1_RoundTrip ==
    codec.pc = "decoded" =>
        /\ codec.decoded.ok
        /\ codec.decoded.extended = codec.frame.extended
        /\ codec.decoded.remote = codec.frame.remote
        /\ codec.decoded.can_id = codec.frame.can_id
        /\ codec.decoded.data = codec.frame.data

\* an extended remote frame with the largest identifier and a full payload
\* ending in a zero byte has made the round trip
C1_Witness ==
    /\ codec.pc = "decoded"
    /\ codec.frame.extended /\ codec.frame.remote
    /\ codec.frame.can_id = CAN_EXTENDED_ID_MAX
    /\ Len(codec.frame.data) = CAN_FRAME_MAX_DATA_LENGTH
    /\ codec.frame.data[CAN_FRAME_MAX_DATA_LENGTH] = 0

\* C2: the encoding of a valid frame is 13 bytes: byte 0 is
\* (0x80 if extended) | (0x40 if remote) | payload length with bits 5 and 4
\* zero, bytes 1-4 are the identifier big-endian (bytes 1-2 zero for a
\* standard frame), bytes 5-12 are the payload followed by zero bytes.
C2_Layout ==
    codec.pc \in {"wire", "decoded"} =>
        LET f == codec.frame
            w == codec.wire
        IN  /\ Len(w) = 13
            /\ \A i \in 1..13 : w[i] \in 0..255
            /\ w[1] \div 128 = (IF f.extended THEN 1 ELSE 0)
            /\ (w[1] \div 64) % 2 = (IF f.remote THEN 1 ELSE 0)
            /\ (w[1] \div 16) % 4 = 0
            /\ w[1] % 16 = Len(f.data)
            /\ ((w[2] * 256 + w[3]) * 256 + w[4]) * 256 + w[5] = f.can_id
            /\ ~f.extended => (w[2] = 0 /\ w[3] = 0)
            /\ \A i \in 1..8 : w[5 + i] = (IF i <= Len(f.data) THEN f.data[i] ELSE 0)

\* a standard remote frame with identifier 0x7FF and a 3-byte payload has
\* been encoded
C2_Witness ==
    /\ codec.pc = "wire"
    /\ ~codec.frame.extended /\ codec.frame.remote
    /\ codec.frame.can_id = CAN_STANDARD_ID_MAX
    /\ Len(codec.frame.data) = 3

-----------------------------------------------------------------------------
(* Claims about the frame pipeline, Module C and Device B's watchdog *)

\* the pipeline's state named by the claims: the counters and times, the
\* last-seen frames, Module C's values and Device A's status
PipelineState(w) ==
    <<w.app.pipeline_stats, w.app.last_received_frames, w.app.last_watchdog_status,
      w.module_c, w.device_a>>

\* the inputs of PipelineInputs that decode to a frame
WellFormedInputs == {data \in PipelineInputs : from_ethernet(data).ok}

\* C3: process_device_frame called with a byte string whose length is not 13
\* raises an error to the caller and leaves every piece of pipeline state
\* (and the rest of the program's state) unchanged, so that a valid frame
\* processed afterwards is counted and dispatched exactly as if the failed
\* call had never happened.
C3_BadLengthRaisesAndChangesNothing ==
    \A data \in BadLengthInputs :
        LET failed == process_device_frame(World, data, now)
        IN  /\ Len(data) # 13
            /\ failed.ret = ValueError
            /\ PipelineState(failed.w) = PipelineState(World)
            /\ failed.w = World
            /\ \A valid \in WellFormedInputs :
                   process_device_frame(failed.w, valid, now)
                       = process_device_frame(World, valid, now)

\* C3's case: a call with a wrong length has just raised, in a pipeline that
\* has processed a frame before and is not frozen
C3_Witness ==
    /\ ret = ValueError
    /\ ~app.frozen
    /\ app.pipeline_stats.frames_processed = 1
    /\ app.pipeline_stats.device_a_frames = 1
    /\ now > app.pipeline_stats.last_frame_time

\* C4: Device B's monitor changes watchdog_status from ok to triggered only
\* at a check where now - last_watchdog_reset is greater than the base
\* timeout multiplied by the timing scale current at that check, the device
\* running and not frozen; and at every such check it does make that change.
C4_TriggerCondition ==
    /\ [][(device_b.watchdog_status = "ok" /\ device_b'.watchdog_status = "triggered")
            => /\ now - device_b.last_watchdog_reset > base_watchdog_timeout * SCALE_TIMING
               /\ device_b.running
               /\ ~device_b.frozen
               /\ device_b' = DeviceB_watchdog_monitor(device_b, SCALE_TIMING, now)]_vars
    /\ [](( /\ device_b.running
            /\ ~device_b.frozen
            /\ now - device_b.last_watchdog_reset > base_watchdog_timeout * SCALE_TIMING)
          => DeviceB_watchdog_monitor(device_b, SCALE_TIMING, now).watchdog_status = "triggered")

\* C4's case: the watchdog has triggered under a scale of 2, later than the
\* timeout of scale 1 and within one tick of the timeout of scale 2
C4_Witness ==
    /\ device_b.watchdog_status = "triggered"
    /\ SCALE_TIMING = 2
    /\ now - device_b.last_watchdog_reset = base_watchdog_timeout * 2 + 1

\* a step in which Device B handles a watchdog-reset frame
HandlesResetFrame ==
    \E data \in DeviceBInputs :
        /\ from_ethernet(data).ok
        /\ from_ethernet(data).can_id = WATCHDOG_FRAME_ID
        /\ ~device_b.frozen
        /\ device_b' = DeviceB_handle_frame(device_b, data, now).b

\* C5: once triggered, watchdog_status stays triggered in every later state
\* until Device B handles a watchdog-reset frame (identifier 0x100), which
\* sets it back to ok; no other step (monitor check, control frame, freeze,
\* unfreeze, timing-scale change) changes triggered to ok.
C5_Latch ==
    /\ [][(device_b.watchdog_status = "triggered" /\ device_b'.watchdog_status # "triggered")
            => HandlesResetFrame /\ device_b'.watchdog_status = "ok"]_vars
    /\ [](~device_b.frozen
          => DeviceB_handle_frame(device_b, frame_watchdog, now).b.watchdog_status = "ok")

\* C5's case: the watchdog is triggered after a freeze followed by an
\* unfreeze, a control frame and a change of the timing scale
C5_Witness ==
    /\ device_b.watchdog_status = "triggered"
    /\ ~device_b.frozen
    /\ device_b.running
    /\ app.has_watchdog_state_before_freeze
    /\ device_b.control = 7
    /\ SCALE_TIMING = 2

\* C6: while the pipeline is frozen, process_device_frame on any well-formed
\* 13-byte input returns the decoded frame and changes nothing: no counter,
\* no time, no last-seen frame, no Module C value, no Device A status.
C6_FrozenPipelineChangesNothing ==
    app.frozen =>
        \A data \in WellFormedInputs :
            LET r == process_device_frame(World, data, now)
            IN  /\ Len(data) = 13
                /\ r.ret = from_ethernet(data)
                /\ PipelineState(r.w) = PipelineState(World)
                /\ r.w = World

\* C6's case: a frozen pipeline that counted a frame before the freeze has
\* just returned the frame of a Device A status, at a later time
C6_Witness ==
    /\ app.frozen
    /\ ret = from_ethernet(frame_a)
    /\ app.pipeline_stats.frames_processed = 1
    /\ app.pipeline_stats.device_b_frames = 1
    /\ now > app.pipeline_stats.last_frame_time

\* Module C's values named by the claim
ModuleCValues(c) == <<c.device_a, c.device_b, c.calculation_result>>

\* C7: while Module C is frozen no step (update_device_a, update_device_b,
\* a process_data cycle) changes last device A value, last device B value
\* or calculation_result; when it is not frozen an update call is applied
\* and, running, a cycle recomputes calculation_result.
C7_FrozenModuleC ==
    /\ [][(module_c.frozen /\ module_c'.frozen)
            => ModuleCValues(module_c') = ModuleCValues(module_c)]_vars
    /\ [][(module_c.frozen /\ ~module_c'.frozen)
            => ModuleCValues(module_c') = ModuleCValues(module_c)]_vars
    /\ [](module_c.frozen =>
            /\ \A v \in UpdateInputs :
                   /\ ModuleC_update_device_a(module_c, v) = module_c
                   /\ ModuleC_update_device_b(module_c, v) = module_c
            /\ ModuleC_process_data(module_c, now) = module_c)
    /\ [](~module_c.frozen =>
            /\ \A v \in UpdateInputs :
                   /\ ModuleC_update_device_a(module_c, v).device_a = v
                   /\ ModuleC_update_device_b(module_c, v).device_b = v
            /\ module_c.running =>
                   ModuleC_process_data(module_c, now).calculation_result
                       = (module_c.device_a + module_c.device_b)
                             * ModuleC_get_operational_value(now))

\* C7's case: Module C is frozen with values an update and a cycle would
\* change: the result was computed from device A's value alone, device B's
\* value came later
C7_Witness ==
    /\ module_c.frozen
    /\ module_c.device_a = 3
    /\ module_c.device_b = 5
    /\ module_c.calculation_result = 3

-----------------------------------------------------------------------------
(* Claims about freeze control *)

\* C8: while the system is frozen no step (monitor check, watchdog-reset
\* frame, manual reset, auto-sender step, a second freeze) changes Device
\* B's watchdog_status, and get_status reports the status held when the
\* freeze began, which is the status the register holds.
C8_FrozenWatchdogStatus ==
    /\ [][app.frozen => device_b'.watchdog_status = device_b.watchdog_status]_vars
    /\ [][app'.frozen
            => get_status(World').device_b.watchdog_status = device_b.watchdog_status]_vars
    /\ [](app.frozen
            => get_status(World).device_b.watchdog_status = device_b.watchdog_status)

\* C8's case: the system is frozen with an untriggered watchdog whose
\* timeout has passed, and a manual reset has just been made
C8_Witness ==
    /\ app.frozen
    /\ device_b.watchdog_status = "ok"
    /\ now - device_b.last_watchdog_reset > base_watchdog_timeout * SCALE_TIMING
    /\ "watchdog_status" \in DOMAIN ret

\* C9: calling set_frozen(True) twice in a row leaves the system in the
\* same state as calling it once, the saved auto-watchdog state included,
\* and a following set_frozen(False) then gives the state it gives after a
\* single freeze.
C9_FreezeIdempotent ==
    LET once  == set_frozen(World, NoTask, TRUE)
        twice == set_frozen(once, NoTask, TRUE)
    IN  /\ twice = once
        /\ FreeIds(World) # {}
             => set_frozen(twice, NewId(World), FALSE) = set_frozen(once, NewId(World), FALSE)

\* whether the auto-watchdog is enabled with its sender task running
SenderRunning ==
    /\ app.auto_watchdog_enabled
    /\ app.watchdog_task \in DOMAIN tasks
    /\ tasks[app.watchdog_task].kind = "watchdog_sender"
    /\ ~tasks[app.watchdog_task].must_cancel

\* C10: freeze cancels the running sender task and no sender step sends a
\* reset while frozen; if the auto-watchdog was enabled (interval > 0) when
\* the freeze began and the interval has not been changed since, then after
\* unfreeze, once the event loop has run every ready step, the auto-watchdog
\* is enabled again with a sender task running.
C10_FreezeRestoresSender ==
    /\ app.frozen =>
           \A id \in DOMAIN tasks :
               (tasks[id].kind = "watchdog_sender" /\ id = app.watchdog_task
                    /\ ready # <<>> /\ Head(ready) = id)
                   => watchdog_sender_step([World EXCEPT !.ready = Tail(@)], id, now).device_b
                          = device_b
    /\ (~app.frozen /\ hist.enabled_at_freeze /\ ready = <<>>) => SenderRunning

-----------------------------------------------------------------------------
(* Claims about the producers *)

\* C11: no step taken from a frozen state makes a generator of Device A or
\* Device B yield a frame, updates Device A's uptime or operational value,
\* or feeds a frame into the pipeline (its counters, times and last-seen
\* frames stay as they are), whatever the broadcaster was waiting on when
\* the freeze came.
C11_FrozenProducers ==
    [][app.frozen =>
          /\ ~(app'.device_a_generator = "yielded" /\ app.device_a_generator # "yielded")
          /\ ~(app'.device_b_generator = "yielded" /\ app.device_b_generator # "yielded")
          /\ device_a'.uptime = device_a.uptime
          /\ device_a'.operational = device_a.operational
          /\ app'.pipeline_stats = app.pipeline_stats
          /\ app'.last_received_frames = app.last_received_frames]_vars

\* C11's case: the system is frozen and the broadcaster, which was in the
\* timed wait of Device B's generator after a frame of Device A, is about
\* to run again
C11_Witness ==
    /\ app.frozen
    /\ BroadcasterId \in DOMAIN tasks
    /\ tasks[BroadcasterId].at = "gen_b"
    /\ tasks[BroadcasterId].pc = "woken"
    /\ ready # <<>>
    /\ Head(ready) = BroadcasterId
    /\ app.pipeline_stats.device_a_frames > 1

-----------------------------------------------------------------------------
(* Claims about dispatch in the pipeline that is not frozen *)

\* the per-source counters of the pipeline
SourceCounters == {"device_a_frames", "device_b_frames", "watchdog_frames", "control_frames"}

\* the per-source counter that matches a reserved identifier
CounterOf(can_id) ==
    IF can_id = DEVICE_A_STATUS_ID THEN "device_a_frames"
    ELSE IF can_id = DEVICE_B_STATUS_ID THEN "device_b_frames"
    ELSE IF can_id = WATCHDOG_FRAME_ID THEN "watchdog_frames"
    ELSE "control_frames"

\* C12: in a pipeline that is not frozen, processing one well-formed frame
\* whose identifier is one of the four reserved identifiers increments
\* frames_processed by exactly 1 and the per-source counter of that
\* identifier by exactly 1, leaves the other per-source counters unchanged
\* and records the frame as last seen for its identifier.
C12_ReservedDispatch ==
    ~app.frozen =>
        \A data \in WellFormedInputs :
            LET frame == from_ethernet(data)
                r     == process_device_frame(World, data, now)
                st    == app.pipeline_stats
                st1   == r.w.app.pipeline_stats
            IN  frame.can_id \in frame_handlers =>
                    /\ st1.frames_processed = st.frames_processed + 1
                    /\ \A c \in SourceCounters :
                           st1[c] = IF c = CounterOf(frame.can_id) THEN st[c] + 1 ELSE st[c]
                    /\ frame.can_id \in DOMAIN r.w.app.last_received_frames
                    /\ r.w.app.last_received_frames[frame.can_id] = frame

\* the four reserved identifiers
ReservedIds == {DEVICE_A_STATUS_ID, DEVICE_B_STATUS_ID, WATCHDOG_FRAME_ID, CONTROL_FRAME_ID}

\* C13: in a pipeline that is not frozen, processing a well-formed frame
\* whose identifier is not reserved raises no error, increments
\* frames_processed by 1, stores the frame in the one last-seen slot of its
\* identifier (over any earlier frame of that identifier, the other slots
\* kept) and changes no per-source counter, no Module C value, no Device A
\* status and no Device B register.
C13_UnreservedStoredNotDispatched ==
    ~app.frozen =>
        \A data \in WellFormedInputs :
            LET frame == from_ethernet(data)
                r     == process_device_frame(World, data, now)
                st    == app.pipeline_stats
                st1   == r.w.app.pipeline_stats
            IN  frame.can_id \notin ReservedIds =>
                    /\ r.ret = frame
                    /\ st1.frames_processed = st.frames_processed + 1
                    /\ \A c \in SourceCounters : st1[c] = st[c]
                    /\ r.w.app.last_received_frames
                           = DictSet(app.last_received_frames, frame.can_id, frame)
                    /\ r.w.module_c = module_c
                    /\ r.w.device_a = device_a
                    /\ r.w.device_b = device_b

\* C13's case: two frames of the unreserved identifier 0x123 have been
\* processed, the second, of the other framing, over the first
C13_Witness ==
    /\ ~app.frozen
    /\ app.pipeline_stats.frames_processed = 2
    /\ \A c \in SourceCounters : app.pipeline_stats[c] = 0
    /\ DOMAIN app.last_received_frames = {291}
    /\ app.last_received_frames[291] = from_ethernet(frame_other_ext)
    /\ ret = from_ethernet(frame_other_ext)
    /\ app.pipeline_stats.last_frame_time = 2

-----------------------------------------------------------------------------
(* Claims about the pipeline's statistics *)

\* the five counters of the pipeline are all zero
CountersZero(st) ==
    /\ st.frames_processed = 0
    /\ \A c \in SourceCounters : st[c] = 0

\* C14: right after every stats-reset tick taken while not frozen the five
\* counters are zero; and frame_rates changes only in a reset tick taken
\* while not frozen, never by the processing of a frame.
C14_ResetTick ==
    /\ [](~app.frozen => CountersZero(reset_counters(World, now).app.pipeline_stats))
    /\ [][app'.pipeline_stats.last_rates_update # app.pipeline_stats.last_rates_update
            => CountersZero(app'.pipeline_stats)]_vars
    /\ [][app'.pipeline_stats.frame_rates # app.pipeline_stats.frame_rates
            => /\ ~app.frozen
               /\ app' = reset_counters(World, now).app
               /\ CountersZero(app'.pipeline_stats)]_vars
    /\ [](\A data \in PipelineInputs :
              process_device_frame(World, data, now).w.app.pipeline_stats.frame_rates
                  = app.pipeline_stats.frame_rates)

\* C14's case: a reset tick at tick 2 has just zeroed the counters of a
\* pipeline that is not frozen and had counted frames of Device A and B
C14_Witness ==
    /\ ~app.frozen
    /\ CountersZero(app.pipeline_stats)
    /\ app.pipeline_stats.last_rates_update = 2
    /\ app.pipeline_stats.frame_rates.device_a # <<0, 1>>
    /\ app.pipeline_stats.frame_rates.device_b # <<0, 1>>
    /\ app.pipeline_stats.frame_rates.total # app.pipeline_stats.frame_rates.device_a

-----------------------------------------------------------------------------
(* Claims about the handlers of frames *)

\* payloads [op, u3, u2, u1, u0] of a status frame of Device A
DeviceAPayloads ==
    {<<2, 0, 0, 0, 42>>, <<3, 1, 2, 3, 4>>, <<1, 0, 0, 1, 0>>, <<255, 127, 255, 255, 255>>}

\* C15: processing, while not frozen, a status frame of Device A
\* (identifier 0x18FF0001) with payload [op, u3, u2, u1, u0] sets Module
\* C's last device A value to op, Device A's operational to op and its
\* uptime to the big-endian value of u3..u0; payload [2, 0, 0, 0, 42] gives
\* operational 2, uptime 42 and last device A value 2.
C15_DeviceAFrame ==
    ~app.frozen =>
        /\ \A payload \in DeviceAPayloads :
               LET data == to_ethernet(CANFrame_init(TRUE, FALSE, DEVICE_A_STATUS_ID, payload))
                   r    == process_device_frame(World, data, now)
               IN  /\ r.ret.ok
                   /\ r.w.module_c.device_a = payload[1]
                   /\ r.w.device_a.operational = payload[1]
                   /\ r.w.device_a.uptime = payload[2] * 16777216 + payload[3] * 65536
                                                + payload[4] * 256 + payload[5]
        /\ LET r == process_device_frame(World, frame_a, now)
           IN  /\ r.w.device_a.operational = 2
               /\ r.w.device_a.uptime = 42
               /\ r.w.module_c.device_a = 2

\* C15's case: the frame with payload [2, 0, 0, 0, 42] has just been
\* processed by a pipeline that is not frozen
C15_Witness ==
    /\ ~app.frozen
    /\ ret = from_ethernet(frame_a)
    /\ ret.data = <<2, 0, 0, 0, 42>>
    /\ device_a.operational = 2
    /\ device_a.uptime = 42
    /\ module_c.device_a = 2
    /\ app.pipeline_stats.device_a_frames = 1

\* payloads with a first byte, and identifiers that Device B does not accept
FirstBytePayloads == {<<1>>, <<0>>, <<200, 5>>, <<7, 0, 0, 0, 0, 0, 0, 9>>}
OtherIds == {0, 255, 257, 291, 511, 513, DEVICE_A_STATUS_ID, DEVICE_B_STATUS_ID}

\* the bytes Device B receives for a frame of identifier can_id
DeviceBFrame(extended, can_id, payload) ==
    to_ethernet(CANFrame_init(extended, FALSE, can_id, payload))

\* C16: Device B's handle_frame, when not frozen: a frame 0x100 sets the
\* last reset time to now, the watchdog register to the first payload byte
\* and watchdog_status to ok, and nothing else; a frame 0x200 sets control
\* to the first payload byte and the command time to now, and nothing
\* else; a frame of any other identifier raises nothing and changes nothing.
C16_DeviceBHandleFrame ==
    ~device_b.frozen =>
        /\ \A payload \in FirstBytePayloads, extended \in BOOLEAN :
               /\ DeviceB_handle_frame(device_b, DeviceBFrame(extended, WATCHDOG_FRAME_ID, payload), now)
                      = [b |-> [device_b EXCEPT !.last_watchdog_reset = now,
                                                !.watchdog = payload[1],
                                                !.watchdog_status = "ok"],
                         ret |-> None]
               /\ DeviceB_handle_frame(device_b, DeviceBFrame(extended, CONTROL_FRAME_ID, payload), now)
                      = [b |-> [device_b EXCEPT !.control = payload[1],
                                                !.last_command = now],
                         ret |-> None]
        /\ \A can_id \in OtherIds, payload \in FirstBytePayloads \cup {<<>>} :
               DeviceB_handle_frame(device_b, DeviceBFrame(TRUE, can_id, payload), now)
                   = [b |-> device_b, ret |-> None]

\* C16's case: Device B, not frozen, has handled a control frame at tick 3
\* and, its watchdog triggered meanwhile, a reset frame at tick 8
C16_Witness ==
    /\ ~device_b.frozen
    /\ now = 8
    /\ device_b.last_watchdog_reset = 8
    /\ device_b.watchdog = 1
    /\ device_b.watchdog_status = "ok"
    /\ device_b.control = 7
    /\ device_b.last_command = 3

-----------------------------------------------------------------------------
(* Claims about the timing scale *)

\* a float that is strictly positive
IsPositive(x) == x # NaN /\ x > 0

\* C17: the timing scale is strictly positive in every reachable state: it
\* starts at 1, set_scale_timing(v) with v <= 0 fails with ValueError and
\* leaves the scale unchanged, and set_scale_timing(v) with v > 0 makes the
\* scale v.
C17_ScalePositive ==
    /\ IsPositive(SCALE_TIMING)
    /\ \A v \in FloatInputs :
           /\ Leq(v, 0) => set_scale_timing(World, v) = [w |-> World, ret |-> ValueError]
           /\ IsPositive(v) =>
                  /\ set_scale_timing(World, v).ret = None
                  /\ set_scale_timing(World, v).w.SCALE_TIMING = v

-----------------------------------------------------------------------------
(* Claims about the construction and the decoding of frames *)

\* C18: constructing a standard frame with identifier 0x7FF and an extended
\* frame with identifier 0x1FFFFFFF succeeds and both encode (to 13 bytes
\* that carry the identifier); constructing a standard frame with
\* identifier 0x800 or an extended frame with identifier 0x20000000 fails
\* with ValueError, as does any negative identifier and any payload longer
\* than 8 bytes.
C18_IdentifierBounds ==
    codec.pc # "args" /\ codec.pc # "idle" =>
        LET extended == codec.args[1]
            can_id   == codec.args[3]
            data     == codec.args[4]
        IN  /\ (~extended /\ can_id = 2048) => codec.frame = ValueError
            /\ (extended /\ can_id = 536870912) => codec.frame = ValueError
            /\ can_id < 0 => codec.frame = ValueError
            /\ Len(data) > 8 => codec.frame = ValueError
            /\ ((~extended /\ can_id = 2047) \/ (extended /\ can_id = 536870911)) /\ Len(data) <= 8
                  => /\ codec.frame.ok
                     /\ codec.frame.can_id = can_id
                     /\ codec.pc \in {"wire", "decoded"}
                           => /\ Len(codec.wire) = 13
                              /\ int_from_bytes(SubSeq(codec.wire, 2, 5)) = can_id

\* C18's case: the extended frame with identifier 0x1FFFFFFF and 8 payload
\* bytes has been constructed and encoded
C18_Witness ==
    /\ codec.pc = "wire"
    /\ codec.args[1]
    /\ codec.args[3] = 536870911
    /\ Len(codec.args[4]) = 8
    /\ SubSeq(codec.wire, 2, 5) = <<31, 255, 255, 255>>

-----------------------------------------------------------------------------
(* The decoder exercised on raw bytes: thirteen bytes that no encoder      *)
(* need have produced are handed to from_ethernet.                         *)

\* control bytes: every combination of bits 7, 6, 5 and 4 with every length
\* a frame may hold
RawControls ==
    { 16 * hi + L : hi \in 0..15, L \in 0..CAN_FRAME_MAX_DATA_LENGTH }

\* identifier fields: in and out of range for either framing, with and
\* without non-zero bytes 1-2
RawIds ==
    { <<0, 0, 0, 1>>, <<0, 0, 1, 0>>, <<0, 0, 8, 0>>, <<127, 255, 7, 255>>,
      <<31, 255, 255, 255>>, <<32, 0, 0, 0>> }

RawFields ==
    { <<1, 2, 3, 4, 5, 6, 7, 8>>, Zeros(8), <<255, 254, 253, 252, 251, 250, 249, 248>> }

RawInputs == { <<c>> \o id \o f : c \in RawControls, id \in RawIds, f \in RawFields }

DecodeInit ==
    /\ ProgramInit
    /\ \E raw \in RawInputs :
        codec = [pc |-> "wire", args |-> <<>>, frame |-> NoFrame,
                 wire |-> raw, decoded |-> NoFrame]

DecodeNext == Decode

DecodeSpec == DecodeInit /\ [][DecodeNext]_vars

\* the low nibble of the control byte and the extended bit of raw bytes
RawLength(data) == data[1] % 16
RawExtended(data) == (data[1] \div 128) % 2 = 1

\* the identifier field of raw bytes is one the constructor accepts
RawIdInRange(data) ==
    IF RawExtended(data)
    THEN int_from_bytes(SubSeq(data, 2, 5)) <= CAN_EXTENDED_ID_MAX
    ELSE int_from_bytes(SubSeq(data, 4, 5)) <= CAN_STANDARD_ID_MAX

\* raw bytes with everything the claim calls uninfluential cleared: bits 5
\* and 4 of the control byte, bytes 1-2 of a standard frame, and the
\* trailing bytes past the length
RawCleared(data) ==
    [i \in 1..13 |->
        IF i = 1 THEN data[1] - 16 * ((data[1] \div 16) % 4)
        ELSE IF i \in {2, 3} /\ ~RawExtended(data) THEN 0
        ELSE IF i > 5 + RawLength(data) THEN 0
        ELSE data[i]]

\* the decoded result does not depend on the uninfluential bits and bytes:
\* it is the result for the cleared input, which all inputs that differ
\* only there share
C19_NoInfluence ==
    codec.decoded = from_ethernet(RawCleared(codec.wire))

\* C19 as stated: for ANY 13-byte input whose control-byte low nibble L is
\* between 0 and 8, from_ethernet returns a frame whose payload is exactly
\* the first L bytes of the trailing 8-byte field, and the remaining 8 - L
\* bytes, bits 5 and 4 of the control byte and (for standard frames) bytes
\* 1-2 have no influence on the decoded frame.
C19_PayloadPrefix_AnyInput ==
    (codec.pc = "decoded" /\ Len(codec.wire) = 13 /\ RawLength(codec.wire) <= 8)
        => /\ codec.decoded.ok
           /\ codec.decoded.data = SubSeq(codec.wire, 6, 5 + RawLength(codec.wire))
           /\ C19_NoInfluence

\* C19 amended: for any 13-byte input whose control-byte low nibble L is
\* between 0 and 8, the result of from_ethernet is not influenced by the
\* remaining 8 - L bytes, bits 5 and 4 of the control byte and (for standard
\* frames) bytes 1-2; and when the identifier field is in range for the
\* framing, the result is a frame whose payload is exactly the first L bytes
\* of the trailing 8-byte field.
C19_PayloadPrefix ==
    (codec.pc = "decoded" /\ Len(codec.wire) = 13 /\ RawLength(codec.wire) <= 8)
        => /\ C19_NoInfluence
           /\ RawIdInRange(codec.wire) =>
                /\ codec.decoded.ok
                /\ codec.decoded.data = SubSeq(codec.wire, 6, 5 + RawLength(codec.wire))

\* a standard frame of length 3 decoded from bytes with bits 5 and 4 set,
\* non-zero bytes 1-2 and non-zero trailing bytes past the length
C19_Witness ==
    /\ codec.pc = "decoded"
    /\ codec.wire = <<51, 127, 255, 7, 255, 1, 2, 3, 4, 5, 6, 7, 8>>
    /\ codec.decoded.ok
    /\ codec.decoded.can_id = 2047
    /\ codec.decoded.data = <<1, 2, 3>>

-----------------------------------------------------------------------------
(* Claims about the control command *)

\* the values of ControlInputs outside 0..255
OutOfRangeControls == {value \in ControlInputs : ~(0 <= value /\ value <= 255)}

\* what C20 names: Device B's control register and last_command, every
\* pipeline counter, the last-seen frame table and the Module C values
ControlState(w) ==
    <<w.device_b.control, w.device_b.last_command, w.app.pipeline_stats,
      w.app.last_received_frames, ModuleCValues(w.module_c)>>

\* C20: send_control_value with a value outside 0..255 reports an error
\* result to the caller and mutates no state: Device B's control register and
\* last_command, every pipeline counter, the last-seen frame table and the
\* Module C values (and the rest of the program's state) are unchanged.
C20_OutOfRangeControlRejected ==
    \A value \in OutOfRangeControls :
        LET rejected == send_control_value(World, value, now)
        IN  /\ rejected.ret.status = "error"
            /\ ControlState(rejected.w) = ControlState(World)
            /\ rejected.w = World

\* C20's case: an out-of-range command has just been answered with an error,
\* after a command in range set the control register and was counted
C20_Witness ==
    /\ ret = [ok |-> TRUE, status |-> "error"]
    /\ device_b.control = 7
    /\ device_b.last_command > 0
    /\ app.pipeline_stats.frames_processed = 1
    /\ app.pipeline_stats.control_frames = 1
    /\ ~app.frozen

-----------------------------------------------------------------------------
(* Claims about the lifecycle and the periodic tasks *)

\* a task that runs the coroutine kind is not done
TaskRunning(kind) == \E id \in DOMAIN tasks : tasks[id].kind = kind

\* CloudApp.stop has been called and has returned
StopCompleted == hist.stop_called /\ StopId \notin DOMAIN tasks

\* the background periodic tasks: Module C's cycle, the frame broadcaster,
\* Device B's watchdog monitor, the auto-watchdog sender, the stats reset
PeriodicKinds ==
    {"process_data", "frame_broadcaster", "watchdog_monitor", "watchdog_sender",
     "reset_counters"}

\* the periodic tasks that the shutdown cancels
CancelledKinds == {"process_data", "frame_broadcaster", "reset_counters"}

\* C21: after CloudApp.stop() completes, none of the Module C cycle, the
\* frame broadcaster, Device B's watchdog monitor, the auto-watchdog sender
\* and the stats-reset loop is still running.
C21_StopCancelsEveryTask ==
    StopCompleted => \A kind \in PeriodicKinds : ~TaskRunning(kind)

\* what the code does: after stop() completes the tasks of _device_tasks and
\* the stats-reset task are done
C21_StopCancelsDeviceTasks ==
    StopCompleted => \A kind \in CancelledKinds : ~TaskRunning(kind)

\* stop() has completed and both Device B's monitor and an auto-watchdog
\* sender are still running
C21_SurvivorsReached ==
    /\ StopCompleted
    /\ TaskRunning("watchdog_monitor")
    /\ TaskRunning("watchdog_sender")
    /\ app.auto_watchdog_enabled

\* a step is a counter reset that follows an earlier reset (the stats are
\* constructed at tick 1, every later last_rates_update is the time of a reset)
ConsecutiveReset ==
    /\ app'.pipeline_stats.last_rates_update # app.pipeline_stats.last_rates_update
    /\ app.pipeline_stats.last_rates_update > 1

\* the time between the reset of this step and the reset before it
ResetPeriod == app'.pipeline_stats.last_rates_update - app.pipeline_stats.last_rates_update

\* C23: the stats-reset task runs on a cadence of 10 seconds multiplied by
\* TimingScale: with a constant scale s and the system not frozen,
\* consecutive counter resets are 10*s apart.
C23_ResetCadenceScaled ==
    [][ConsecutiveReset => ResetPeriod = 100 * SCALE_TIMING]_vars

\* what the code does: consecutive resets are 10 seconds apart whatever the
\* scale is
C23_ResetCadenceFixed ==
    [][ConsecutiveReset => ResetPeriod = reset_counters_sleep]_vars

\* a second reset has happened, under scale 2, 10 seconds after the first
C23_SecondResetReached ==
    /\ SCALE_TIMING = 2
    /\ app.pipeline_stats.last_rates_update = 1 + 2 * reset_counters_sleep

\* the base interval of the wait a task starts: 0.1 s for Module C's cycle,
\* for the monitor, for the broadcaster's own sleep and for a generator's
\* sleep of 1 / 10 Hz inside it, the watchdog interval for the sender, and
\* 10 s for the stats reset
BaseInterval(task) ==
    IF task.kind = "watchdog_sender" THEN app.watchdog_interval
    ELSE IF task.kind = "reset_counters" THEN 100
    ELSE 1

\* the task id starts a timed wait in this step
StartsWait(id) ==
    /\ id \in DOMAIN tasks'
    /\ tasks'[id].pc = "sleeping"
    /\ id \in DOMAIN tasks => tasks[id].pc # "sleeping"

\* the task id is in a timed wait before and after this step
InWait(id) ==
    /\ id \in DOMAIN tasks /\ tasks[id].pc = "sleeping"
    /\ id \in DOMAIN tasks' /\ tasks'[id].pc = "sleeping"

\* the loops of C22 other than the stats reset
ScaledKinds == {"process_data", "frame_broadcaster", "watchdog_monitor", "watchdog_sender"}

\* C22: every periodic loop (Device A and B emission, watchdog monitor,
\* auto-watchdog sender, Module C cycle, frame broadcaster, stats reset)
\* computes each wait as its base interval multiplied by the TimingScale
\* value read at the moment that wait starts; a scale change made during a
\* wait does not alter the length of that wait, and the very next wait of
\* every loop uses the changed scale.
C22_WaitsScaled ==
    [][\A id \in 1..StopId :
          /\ StartsWait(id) =>
                tasks'[id].wake = now + BaseInterval(tasks'[id]) * SCALE_TIMING
          /\ InWait(id) => tasks'[id].wake = tasks[id].wake]_vars

\* what the code does: the same for every loop but the stats reset
C22_WaitsScaledButReset ==
    [][\A id \in 1..StopId :
          /\ (StartsWait(id) /\ tasks'[id].kind \in ScaledKinds) =>
                tasks'[id].wake = now + BaseInterval(tasks'[id]) * SCALE_TIMING
          /\ InWait(id) => tasks'[id].wake = tasks[id].wake]_vars

\* the scale has been changed to 2 during the waits of the sender, the
\* monitor, Module C and the broadcaster, which are still waiting for the
\* time fixed under scale 1
C22_ChangeDuringWaitReached ==
    /\ SCALE_TIMING = 2
    /\ \E id \in DOMAIN tasks :
          /\ tasks[id].kind = "watchdog_sender"
          /\ tasks[id].pc = "sleeping"
          /\ tasks[id].wake = app.last_watchdog_reset_time + app.watchdog_interval
    /\ \A id \in {ModuleCId, MonitorId, BroadcasterId} :
          /\ id \in DOMAIN tasks
          /\ tasks[id].pc = "sleeping"
          /\ tasks[id].wake = now + 1
    /\ now > 1

\* in this step the pipeline counts a frame of Device A, and it has counted
\* one before
NextDeviceAFrame ==
    /\ app'.pipeline_stats.device_a_frames = app.pipeline_stats.device_a_frames + 1
    /\ hist.last_a_frame # 0

\* Device A's base period 1 / r, at the default rate r of 10 Hz
base_period == 1

\* C24: in a running, unfrozen system with constant TimingScale s and base
\* rate r, consecutive Device A frames reach the pipeline s / r apart
\* (0.1*s at the default rate of 10), so doubling s doubles the period.
C24_DeviceAPeriod ==
    [][NextDeviceAFrame => now - hist.last_a_frame = base_period * SCALE_TIMING]_vars

\* what the code does: the second frame follows the first after two base
\* periods and every later frame follows after three, each multiplied by
\* the scale (doubling the scale does double the period)
C24_DeviceAPeriodOfThree ==
    [][NextDeviceAFrame =>
          now - hist.last_a_frame
              = (IF app.pipeline_stats.device_a_frames = 1 THEN 2 ELSE 3) * base_period * SCALE_TIMING]_vars

\* under scale 2 a third Device A frame has reached the pipeline, 0.6 s
\* after the second
C24_ThirdFrameReached ==
    /\ SCALE_TIMING = 2
    /\ hist.last_a_frame = 11
    /\ app.pipeline_stats.device_a_frames = 3
    /\ now = 11

-----------------------------------------------------------------------------
(* Claims about the wall-clock step functions and Module C's calculation *)

\* the specified operational value of Device A by second of the minute
OperationalOfSecond(sec) ==
    CASE sec \in 0..20 -> 1
      [] sec \in 21..40 -> 2
      [] sec \in 41..59 -> 3

\* the specified multiplier of Module C by second of the minute
MultiplierOfSecond(sec) ==
    CASE sec \in 0..15 -> 1
      [] sec \in 16..30 -> 10
      [] sec \in 31..45 -> 100
      [] sec \in 46..59 -> 1000

CycleStep ==
    /\ module_c'.last_calculation_time # module_c.last_calculation_time
    /\ module_c.running /\ ~module_c.frozen

\* C27: at the end of every Module C cycle executed while running and not
\* frozen, calculation_result equals (last_device_a_value +
\* last_device_b_value) multiplied by the step multiplier of the current
\* second-of-minute, using the values held at that cycle; between cycles
\* calculation_result is changed by nothing else.
C27_ModuleCCalculation ==
    /\ [][CycleStep =>
            /\ module_c'.last_calculation_time = now
            /\ module_c'.device_a = module_c.device_a
            /\ module_c'.device_b = module_c.device_b
            /\ module_c'.calculation_result
                  = (module_c.device_a + module_c.device_b)
                        * MultiplierOfSecond(current_second(now))]_vars
    /\ [][~CycleStep =>
            /\ module_c'.calculation_result = module_c.calculation_result
            /\ module_c'.last_calculation_time = module_c.last_calculation_time]_vars

\* C27's case: in second 25 of the minute a cycle has just multiplied the
\* values 2 of Device A and 7 of Device B by 10
C27_Witness ==
    /\ current_second(now) = 25
    /\ module_c.last_calculation_time = now
    /\ module_c.device_a = 2
    /\ module_c.device_b = 7
    /\ module_c.calculation_result = 90
    /\ module_c.running /\ ~module_c.frozen

-----------------------------------------------------------------------------
(* Claims about the devices' state and frames *)

\* Device A's visible operational value is one of 1, 2, 3
C26_OperationalInRange == device_a.operational \in {1, 2, 3}

\* a step changes Device A's state only as Device A's generation cycle does
C26_ChangedOnlyByCycle ==
    [][device_a' # device_a => device_a' = DeviceA_generate(device_a, now).a]_vars

\* C26: Device A's visible operational value is in {1, 2, 3} in every
\* reachable state and Device A's state is changed only by Device A's own
\* frame-generation cycle, whatever sequence of well-formed frames is fed
\* to the pipeline.
C26_DeviceAOwnState ==
    /\ [](device_a.operational \in {1, 2, 3})
    /\ [][device_a' # device_a => device_a' = DeviceA_generate(device_a, now).a]_vars

\* the payload the claim gives a status frame of Device B with registers b
StatusPayload(b) ==
    <<b.status, b.control, b.watchdog, IF b.watchdog_status = "ok" THEN 1 ELSE 0>>

\* in this step the pipeline, not frozen, processes a status frame of Device B
DeviceBFrameStep ==
    /\ ~app.frozen
    /\ app'.pipeline_stats.device_b_frames = app.pipeline_stats.device_b_frames + 1

\* C28: every status frame Device B emits has identifier 0x18FF0002 and a
\* 4-byte payload [status, control, watchdog_register, flag] taken from its
\* registers at emission time, where flag is 1 exactly when watchdog_status
\* is ok; a triggered watchdog does not stop emission; and once such a frame
\* is processed unfrozen by the pipeline, the pipeline's
\* last_watchdog_status equals Device B's watchdog_status at emission and
\* Module C's last_device_b_value equals Device B's control register.
C28_DeviceBStatusFrame ==
    /\ [](device_b.running =>
            LET g == DeviceB_generate(device_b)
                f == from_ethernet(g.frame)
            IN  /\ g.yielded
                /\ f.ok /\ f.extended /\ ~f.remote
                /\ f.can_id = 419364866
                /\ f.data = StatusPayload(device_b)
                /\ f.data[4] = 1 <=> device_b.watchdog_status = "ok")
    /\ [][DeviceBFrameStep =>
            /\ app'.last_received_frames[DEVICE_B_STATUS_ID].data = StatusPayload(device_b)
            /\ app'.last_watchdog_status = device_b.watchdog_status
            /\ module_c'.device_b = device_b.control
            /\ device_b' = device_b]_vars

\* C28's case: with the watchdog triggered, a status frame carrying the
\* control value 7, the watchdog register 1 and flag 0 has just been
\* processed
C28_Witness ==
    /\ device_b.watchdog_status = "triggered"
    /\ device_b.control = 7
    /\ device_b.watchdog = 1
    /\ DEVICE_B_STATUS_ID \in DOMAIN app.last_received_frames
    /\ app.last_received_frames[DEVICE_B_STATUS_ID].data = <<0, 7, 1, 0>>
    /\ app.last_watchdog_status = "triggered"
    /\ module_c.device_b = 7
    /\ app.pipeline_stats.last_frame_time = now

-----------------------------------------------------------------------------
(* Claims about the commands under freeze and the auto-watchdog senders.   *)

\* a control command with a value in 0..255, issued while frozen
FrozenControlCommand ==
    /\ app.frozen
    /\ \E value \in ControlInputs \ OutOfRangeControls :
            /\ app.pipeline_stats.frames_processed < MaxFrames
            /\ Call(send_control_value(World, value, now))

\* a manual watchdog reset, issued while frozen
FrozenWatchdogReset ==
    /\ app.frozen
    /\ SendWatchdogReset

\* C29: while the system is frozen, a control command (send_control_value
\* with a value in 0..255) does not change Device B's control register or
\* last_command, and a manual watchdog reset (send_watchdog_reset) does not
\* change Device B's last reset time, watchdog register or status nor the
\* cloud app's last_watchdog_reset_time.
C29_FrozenCommandsChangeNothing ==
    /\ [][FrozenControlCommand =>
            /\ device_b'.control = device_b.control
            /\ device_b'.last_command = device_b.last_command]_vars
    /\ [][FrozenWatchdogReset =>
            /\ device_b'.last_watchdog_reset = device_b.last_watchdog_reset
            /\ device_b'.watchdog = device_b.watchdog
            /\ device_b'.watchdog_status = device_b.watchdog_status
            /\ app'.last_watchdog_reset_time = app.last_watchdog_reset_time]_vars

\* what does hold of the commands under freeze: the pipeline counts and
\* stores nothing, Module C is untouched, and a manual reset leaves Device B
\* as it was
C29_FrozenCommandsReachNoHandler ==
    /\ [][FrozenControlCommand \/ FrozenWatchdogReset =>
            /\ app'.pipeline_stats = app.pipeline_stats
            /\ app'.last_received_frames = app.last_received_frames
            /\ module_c' = module_c]_vars
    /\ [][FrozenWatchdogReset => device_b' = device_b]_vars

\* a frozen system whose Device B carries a control value written at a
\* later time than the freeze began
C29_FrozenWriteReached ==
    /\ app.frozen
    /\ device_b.frozen
    /\ device_b.control = 7
    /\ device_b.last_command = 2
    /\ app.pipeline_stats.frames_processed = 0

\* the sender tasks that have neither exited nor been cancelled
AliveSenders ==
    {id \in DOMAIN tasks : /\ tasks[id].kind = "watchdog_sender"
                           /\ ~tasks[id].must_cancel}

\* C30: at most one auto-watchdog sender task is alive at any time, for
\* every interleaving of set_watchdog_interval calls, freeze/unfreeze and
\* start(): whenever start_auto_watchdog creates a new sender, every
\* previously created sender has been cancelled or has exited.
C30_AtMostOneSender ==
    /\ [](Cardinality(AliveSenders) <= 1)
    /\ [][\A id \in AliveSenders' \ AliveSenders : AliveSenders' = {id}]_vars

\* two senders alive, one of them no longer known to the application
C30_OrphanSenderReached ==
    /\ Cardinality(AliveSenders) = 2
    /\ app.watchdog_task \in AliveSenders
    /\ \E id \in AliveSenders : id # app.watchdog_task

-----------------------------------------------------------------------------
(* Claims about the auto-watchdog's interval and flag.                     *)

\* a start_auto_watchdog task has been created and has not finished
StartPending ==
    \E id \in DOMAIN tasks : tasks[id].kind = "start_auto_watchdog"

\* the step is set_watchdog_interval(interval)
SetsInterval(interval) ==
    /\ FreeIds(World) # {}
    /\ CallH(set_watchdog_interval(World, NewId(World), interval), HistInterval)

\* C31: set_watchdog_interval(x) stores max(0, x) as the interval (the
\* interval is never negative) and reports auto_watchdog_enabled =
\* (interval > 0); once all pending start_auto_watchdog tasks have run and
\* the system is not frozen, the auto_watchdog_enabled flag shown by
\* get_status is true exactly when watchdog_interval > 0, for every sequence
\* of set_watchdog_interval and freeze/unfreeze calls.
C31_EnabledIffIntervalPositive ==
    /\ [](app.watchdog_interval >= 0)
    /\ [][\A x \in AnyIntervalInputs :
            SetsInterval(x) =>
                /\ app'.watchdog_interval = (IF x > 0 THEN x ELSE 0)
                /\ ret'.interval = app'.watchdog_interval
                /\ ret'.auto_watchdog_enabled = (app'.watchdog_interval > 0)]_vars
    /\ []((~StartPending /\ ~app.frozen) =>
            (get_status(World).auto_watchdog_enabled <=> app.watchdog_interval > 0))

\* what does hold: the interval stored and the result reported, and the
\* flag as long as the system has never been frozen
C31_StoredAndReported ==
    /\ [](app.watchdog_interval >= 0)
    /\ [][\A x \in AnyIntervalInputs :
            SetsInterval(x) =>
                /\ app'.watchdog_interval = (IF x > 0 THEN x ELSE 0)
                /\ ret'.interval = app'.watchdog_interval
                /\ ret'.auto_watchdog_enabled = (app'.watchdog_interval > 0)]_vars
    /\ []((~StartPending /\ ~app.has_watchdog_state_before_freeze) =>
            (get_status(World).auto_watchdog_enabled <=> app.watchdog_interval > 0))

\* an unfrozen system with no start task pending whose interval is positive
\* and whose flag is off
C31_FlagOffReached ==
    /\ ~StartPending
    /\ ~app.frozen
    /\ app.watchdog_interval > 0
    /\ ~get_status(World).auto_watchdog_enabled

-----------------------------------------------------------------------------
(* Claims about the shutdown racing with the broadcaster, and about the    *)
(* watchdog under changes of the timing scale.                             *)

\* the tasks of Module C and of the broadcaster that are neither done nor
\* cancelled
UncancelledDeviceTasks ==
    {id \in DOMAIN tasks : /\ tasks[id].kind \in {"process_data", "frame_broadcaster"}
                           /\ ~tasks[id].must_cancel}

\* C32: after CloudApp.stop() returns, _running is false and no Module C or
\* frame-broadcaster task is left uncancelled, for every interleaving of
\* stop() with a frame broadcaster that is suspended inside
\* get_device_a_frame / get_device_b_frame (which call start() when
\* _running is false).
C32_StopLeavesStopped ==
    StopCompleted => (~app.running /\ UncancelledDeviceTasks = {})

\* what does hold: after stop() returns no Module C or frame-broadcaster
\* task is left, those that a start() during the stop created included
C32_StopLeavesNoDeviceTask ==
    StopCompleted => (UncancelledDeviceTasks = {} /\ app.device_tasks = <<>>)

\* stop() has returned and _running is true
C32_RunningAfterStopReached ==
    /\ StopCompleted
    /\ app.running
    /\ UncancelledDeviceTasks = {}

\* the auto-watchdog is enabled and its sender has sent its first reset
FirstAutoResetSent ==
    /\ app.auto_watchdog_enabled
    /\ app.watchdog_task \in DOMAIN tasks
    /\ tasks[app.watchdog_task].kind = "watchdog_sender"
    /\ tasks[app.watchdog_task].pc # "new"

\* C33: with the auto-watchdog enabled at an interval smaller than the base
\* watchdog timeout (0.5 s) and the system never frozen, Device B's
\* watchdog_status never becomes triggered after the first auto reset, for
\* every sequence of TimingScale changes made while the sender and the
\* monitor are in their waits.
C33_NoTriggerUnderAutoReset ==
    (FirstAutoResetSent /\ app.watchdog_interval < base_watchdog_timeout)
        => device_b.watchdog_status # "triggered"

\* what does hold: after the first auto reset the watchdog triggers only in
\* a wait of the sender that is longer than the timeout of the current scale
C33_TriggersOnlyInLongWait ==
    [][(/\ FirstAutoResetSent
        /\ device_b.watchdog_status # "triggered"
        /\ device_b'.watchdog_status = "triggered")
        => tasks[app.watchdog_task].wake - device_b.last_watchdog_reset
                > DeviceB_watchdog_timeout(SCALE_TIMING)]_vars

\* the sender is in a wait begun at scale 2, the scale is 1, and the
\* watchdog has triggered
C33_TriggeredInLongWaitReached ==
    /\ FirstAutoResetSent
    /\ app.watchdog_interval = ShortInterval
    /\ tasks[app.watchdog_task].pc = "sleeping"
    /\ tasks[app.watchdog_task].wake = device_b.last_watchdog_reset + 2 * ShortInterval
    /\ SCALE_TIMING = 1
    /\ ~app.frozen
    /\ device_b.watchdog_status = "triggered"

-----------------------------------------------------------------------------
(* Claims about the freeze flags and the result of the toggle.             *)

\* the six freeze and running flags of the world w
FreezeFlags(w) ==
    <<w.app.frozen, w.module_c.frozen, w.device_b.frozen,
      w.device_a.running, w.device_b.running, w.module_c.running>>

\* the world after two consecutive calls of toggle_freeze
ToggledTwice ==
    LET w1 == toggle_freeze(World, NewId(World)).w
    IN  toggle_freeze(w1, NewId(w1)).w

\* C34: the freeze flag is consistent across components in every reachable
\* state driven through set_frozen / toggle_freeze: CloudApp._frozen =
\* ModuleC._frozen = DeviceB._frozen = (not DeviceA._running) =
\* (not DeviceB._running) = (not ModuleC._running), and two consecutive
\* toggle_freeze calls return all of these flags to their previous values.
C34_FreezeFlagsConsistent ==
    /\ app.frozen = module_c.frozen
    /\ app.frozen = device_b.frozen
    /\ app.frozen = ~device_a.running
    /\ app.frozen = ~device_b.running
    /\ app.frozen = ~module_c.running
    /\ Cardinality(FreeIds(World)) >= 2 =>
            /\ FreezeFlags(toggle_freeze(World, NewId(World)).w)
                    = <<~app.frozen, ~app.frozen, ~app.frozen,
                        app.frozen, app.frozen, app.frozen>>
            /\ FreezeFlags(ToggledTwice) = FreezeFlags(World)

\* C34's case: the server is up with its broadcaster and every component is
\* frozen
C34_Witness ==
    /\ app.running
    /\ BroadcasterId \in DOMAIN tasks
    /\ FreezeFlags(World) = <<TRUE, TRUE, TRUE, FALSE, FALSE, FALSE>>
    /\ FreezeFlags(ToggledTwice) = <<TRUE, TRUE, TRUE, FALSE, FALSE, FALSE>>
    /\ app.pipeline_stats.device_a_frames > 0

\* C35: toggle_freeze reports the state the system is in after the toggle:
\* its result has state 'frozen' exactly when the system is frozen after the
\* call and 'running' exactly when it is not.
C35_ToggleReportsFreezeState ==
    [][ToggleFreeze =>
            ret'.state = (IF app'.frozen THEN "frozen" ELSE "running")]_vars

\* what the code does: the state reported tells whether the application has
\* been started
C35_ToggleReportsStarted ==
    [][ToggleFreeze =>
            ret'.state = (IF app.running THEN "running" ELSE "frozen")]_vars

\* a started system frozen by a toggle that reported 'running'
C35_FrozenReportedRunning ==
    /\ app.frozen
    /\ app.running
    /\ ret = [ok |-> TRUE, status |-> "ok", state |-> "running"]

-----------------------------------------------------------------------------
(* Claims about the counters and about handlers that fail.                 *)

\* C36: in every reachable state of the pipeline, frames_processed >=
\* device_a_frames + device_b_frames + control_frames + watchdog_frames, and
\* all five counters are non-negative, for any interleaving of frame
\* processing (including frames whose handler fails) with stats-reset ticks.
C36_CountersBounded ==
    LET st == app.pipeline_stats
    IN  /\ st.frames_processed >=
                st.device_a_frames + st.device_b_frames + st.control_frames
                    + st.watchdog_frames
        /\ st.frames_processed >= 0
        /\ st.device_a_frames >= 0
        /\ st.device_b_frames >= 0
        /\ st.control_frames >= 0
        /\ st.watchdog_frames >= 0

\* C36's case: after a reset of the counters two frames have been counted,
\* one of them a Device A frame whose handler failed and which was not
\* stored
C36_Witness ==
    /\ app.pipeline_stats.last_rates_update > 1
    /\ app.pipeline_stats.frames_processed = 2
    /\ app.pipeline_stats.device_a_frames = 1
    /\ app.pipeline_stats.control_frames = 0
    /\ DEVICE_A_STATUS_ID \notin DOMAIN app.last_received_frames
    /\ ~ret.ok

\* the step is handle_frame(data) of a Device B that is not frozen
HandlesUnfrozen(data) ==
    /\ ~device_b.frozen
    /\ LET h == DeviceB_handle_frame(device_b, data, now)
       IN  Call([w |-> [World EXCEPT !.device_b = h.b], ret |-> h.ret])

\* the reset time, the watchdog register and the watchdog status of b
ResetState(b) == <<b.last_watchdog_reset, b.watchdog, b.watchdog_status>>

\* C37: Device B's handling of a watchdog-reset frame is all-or-nothing: for
\* every well-formed 13-byte frame with identifier 0x100, including one with
\* an empty payload, either last_reset_time, the watchdog register and
\* watchdog_status are all updated, or handle_frame raises and none of them
\* has changed.
C37_ResetAllOrNothing ==
    [][\A data \in ResetInputs :
            HandlesUnfrozen(data) =>
                LET frame == from_ethernet(data)
                IN  \/ /\ ret'.ok
                       /\ Len(frame.data) >= 1
                       /\ ResetState(device_b') = <<now, frame.data[1], "ok">>
                    \/ /\ ~ret'.ok
                       /\ ResetState(device_b') = ResetState(device_b)]_vars

\* what does hold: a reset frame with a payload updates all three, and one
\* with an empty payload raises with the register and the status unchanged
\* and the reset time set
C37_ResetButForTime ==
    [][\A data \in ResetInputs :
            HandlesUnfrozen(data) =>
                LET frame == from_ethernet(data)
                IN  IF Len(frame.data) >= 1
                    THEN /\ ret'.ok
                         /\ ResetState(device_b') = <<now, frame.data[1], "ok">>
                    ELSE /\ ret' = IndexError
                         /\ ResetState(device_b')
                                = <<now, device_b.watchdog, device_b.watchdog_status>>]_vars

\* handle_frame has raised on a reset frame and left a triggered watchdog
\* with a fresh reset time
C37_PartialResetReached ==
    /\ ret = IndexError
    /\ device_b.watchdog_status = "triggered"
    /\ device_b.last_watchdog_reset = now
    /\ now > base_watchdog_timeout + 1
    /\ ~device_b.frozen

\* the step is process_device_frame(data) in a pipeline that is not frozen
ProcessesUnfrozen(data) ==
    /\ ~app.frozen
    /\ app.pipeline_stats.frames_processed < MaxFrames
    /\ Call(process_device_frame(World, data, now))

\* frames_processed and the four per-source counters of the world w
FiveCounters(w) ==
    LET st == w.app.pipeline_stats
    IN  <<st.frames_processed, st.device_a_frames, st.device_b_frames,
          st.control_frames, st.watchdog_frames>>

\* C38: a pipeline process call that raises because a reserved-identifier
\* frame has too short a payload (a device-A or control frame with an empty
\* payload, a device-B status frame with fewer than 4 bytes) leaves
\* frames_processed, the per-source counters, Module C values and the
\* last-seen table unchanged.
C38_FailedCallChangesNothing ==
    [][\A data \in ShortPayloadInputs :
            ProcessesUnfrozen(data) =>
                /\ ~ret'.ok
                /\ FiveCounters([app |-> app']) = FiveCounters([app |-> app])
                /\ module_c' = module_c
                /\ app'.last_received_frames = app.last_received_frames]_vars

\* what does hold: the call raises IndexError and leaves Module C and the
\* last-seen table unchanged
C38_FailedCallKeepsValues ==
    [][\A data \in ShortPayloadInputs :
            ProcessesUnfrozen(data) =>
                /\ ret' = IndexError
                /\ module_c' = module_c
                /\ app'.last_received_frames = app.last_received_frames
                /\ app'.last_watchdog_status = app.last_watchdog_status
                /\ app'.pipeline_stats.frames_processed
                        = app.pipeline_stats.frames_processed + 1]_vars

\* two calls have raised, on a control frame and on a Device B frame, and
\* each has been counted
C38_FailedCallsCountedReached ==
    /\ ret = IndexError
    /\ FiveCounters([app |-> app]) = <<2, 0, 1, 1, 0>>
    /\ app.last_received_frames = <<>>

-----------------------------------------------------------------------------
(* The decoder on declared lengths above 8, and the decoded frame encoded  *)
(* again.                                                                  *)

\* control bytes with every value of the low nibble
AnyLengthControls == { 16 * hi + L : hi \in 0..15, L \in 0..15 }

AnyLengthInputs ==
    { <<c>> \o id \o f : c \in AnyLengthControls, id \in RawIds, f \in RawFields }

ClampInit ==
    /\ ProgramInit
    /\ \E raw \in AnyLengthInputs :
        codec = [pc |-> "wire", args |-> <<>>, frame |-> NoFrame,
                 wire |-> raw, decoded |-> NoFrame]

\* frame.to_ethernet() on the frame from_ethernet returned; args keeps the
\* bytes it was decoded from
Reencode ==
    /\ codec.pc = "decoded"
    /\ codec.decoded.ok
    /\ codec' = [codec EXCEPT !.args = codec.wire,
                              !.frame = codec.decoded,
                              !.wire = to_ethernet(codec.decoded),
                              !.pc = "reencoded"]
    /\ UNCHANGED progvars

ClampNext == Decode \/ Reencode

ClampSpec == ClampInit /\ [][ClampNext]_vars

\* the bytes that were handed to from_ethernet
DecodedFrom == IF codec.pc = "reencoded" THEN codec.args ELSE codec.wire

\* from_ethernet has returned or raised
HasDecoded == codec.pc \in {"decoded", "reencoded"}

\* every frame from_ethernet returned has at most 8 payload bytes, and
\* encoded again its control byte has a low nibble of at most 8
ReturnedPayloadBounded ==
    /\ (HasDecoded /\ codec.decoded.ok) => Len(codec.decoded.data) <= 8
    /\ codec.pc = "reencoded" =>
          /\ Len(codec.wire) = 13
          /\ RawLength(codec.wire) = Len(codec.decoded.data)

\* C39 as stated: decoding a 13-byte input whose control-byte low nibble is
\* 9 to 15 raises no error and yields a payload of exactly the 8 trailing
\* bytes, so every frame returned by from_ethernet has at most 8 payload
\* bytes and re-encoding it gives a low nibble of 8.
C39_LongLengthClamped_AnyInput ==
    /\ ReturnedPayloadBounded
    /\ (HasDecoded /\ RawLength(DecodedFrom) >= 9) =>
          /\ codec.decoded.ok
          /\ codec.decoded.data = SubSeq(DecodedFrom, 6, 13)
          /\ codec.pc = "reencoded" => RawLength(codec.wire) = 8

\* C39 amended: decoding a 13-byte input whose control-byte low nibble is 9
\* to 15 and whose identifier field is in range for the framing raises no
\* error and yields a payload of exactly the 8 trailing bytes; every frame
\* returned by from_ethernet has at most 8 payload bytes, and re-encoding
\* the frame of such an input gives a low nibble of 8 and the same 8
\* trailing bytes.
C39_LongLengthClamped ==
    /\ ReturnedPayloadBounded
    /\ (HasDecoded /\ RawLength(DecodedFrom) >= 9 /\ RawIdInRange(DecodedFrom)) =>
          /\ codec.decoded.ok
          /\ codec.decoded.data = SubSeq(DecodedFrom, 6, 13)
          /\ codec.pc = "reencoded" =>
                /\ RawLength(codec.wire) = 8
                /\ SubSeq(codec.wire, 6, 13) = SubSeq(DecodedFrom, 6, 13)

\* an extended frame decoded from a control byte with low nibble 15 and
\* encoded again
C39_Witness ==
    /\ codec.pc = "reencoded"
    /\ codec.args = <<143, 31, 255, 255, 255, 1, 2, 3, 4, 5, 6, 7, 8>>
    /\ codec.decoded.data = <<1, 2, 3, 4, 5, 6, 7, 8>>
    /\ codec.wire = <<136, 31, 255, 255, 255, 1, 2, 3, 4, 5, 6, 7, 8>>

\* C40: every frame returned by from_ethernet satisfies the frame
\* invariants, identifier <= 0x7FF when standard and <= 0x1FFFFFFF when
\* extended; a 13-byte input whose identifier field exceeds the range for
\* its framing (a standard frame with bytes 3-4 above 0x7FF, an extended
\* frame with bytes 1-4 above 0x1FFFFFFF) is rejected with an error instead
\* of producing a frame.
C40_DecodedIdentifierInRange ==
    codec.pc = "decoded" =>
        /\ codec.decoded.ok =>
              /\ codec.decoded.extended = RawExtended(codec.wire)
              /\ ~codec.decoded.extended =>
                    /\ codec.decoded.can_id = int_from_bytes(SubSeq(codec.wire, 4, 5))
                    /\ 0 <= codec.decoded.can_id /\ codec.decoded.can_id <= 2047
              /\ codec.decoded.extended =>
                    /\ codec.decoded.can_id = int_from_bytes(SubSeq(codec.wire, 2, 5))
                    /\ 0 <= codec.decoded.can_id /\ codec.decoded.can_id <= 536870911
        /\ (~RawExtended(codec.wire) /\ int_from_bytes(SubSeq(codec.wire, 4, 5)) > 2047)
              => codec.decoded = ValueError
        /\ (RawExtended(codec.wire) /\ int_from_bytes(SubSeq(codec.wire, 2, 5)) > 536870911)
              => codec.decoded = ValueError

\* an extended input with identifier field 0x20000000, one above the
\* maximum, has been rejected
C40_Witness ==
    /\ codec.pc = "decoded"
    /\ RawExtended(codec.wire)
    /\ SubSeq(codec.wire, 2, 5) = <<32, 0, 0, 0>>
    /\ codec.decoded = ValueError

====
